---- MODULE Spec2Model ----
(***************************************************************************)
(* The "Garage" workflow of BUNNY AI Unispace: the GarageWorkflow React    *)
(* component (stage sequencer) with its provider adapter.                  *)
(*                                                                         *)
(* Text is modelled as a sequence of tokens (each token a TLA+ string), so *)
(* that template literals are concatenations and trim() removes blank      *)
(* tokens at both ends.  An optional value (a field that may be undefined) *)
(* is <<>> when undefined and <<v>> when it holds v.                       *)
(*                                                                         *)
(* A handler of a React function component reads the state of the render   *)
(* it was created in.  processStep keeps running, across its await and the *)
(* setTimeout it schedules, inside the render that started it: the model   *)
(* keeps that render's roleAssignments and connections with every call in  *)
(* flight ("chains"), while the state setters, which are all given either  *)
(* a value or a functional update, act on the current state.               *)
(***************************************************************************)
EXTENDS Integers, Sequences, FiniteSets, Bags, TLC

----------------------------------------------------------------------------
(* Bounds of the model *)

\* how many times resetWorkflow is invoked in one behaviour
MaxResets == 1
\* how many times a service is assigned to a role in one behaviour
MaxAssign == 5
\* how many refinements the prompt of stage 0 accumulates
MaxRefine == 2
\* how many roles hold an un-assigned ('') entry at once
MaxUnassigned == 1

----------------------------------------------------------------------------
(* Text *)

Blank == " "

RECURSIVE TrimStart(_)
TrimStart(s) ==
  IF s # <<>> /\ Head(s) = Blank THEN TrimStart(Tail(s)) ELSE s

RECURSIVE TrimEnd(_)
TrimEnd(s) ==
  IF s # <<>> /\ s[Len(s)] = Blank THEN TrimEnd(SubSeq(s, 1, Len(s) - 1)) ELSE s

\* a trim that removes nothing
Trim_Identity(s) == s

\* String.prototype.trim
Trim(s) == TrimEnd(TrimStart(s))

\* s contains t as a contiguous piece
Contains(s, t) ==
  \E i \in 1..(Len(s) - Len(t) + 1) : SubSeq(s, i, i + Len(t) - 1) = t

\* what the user types into the task textarea and into the refinement textarea
UserPrompts == { <<>>, <<Blank>>, <<"build a todo app">> }
\* the refinements the user submits, in the order of submission
RefinementPlan == << <<"add dark mode">>, <<"use plain CSS">>, <<"add tests">> >>

AdditionalInputs ==
  { <<>>, <<Blank>> } \cup { RefinementPlan[i] : i \in 1..Len(RefinementPlan) }

----------------------------------------------------------------------------
(* Role catalogue *)

GARAGE_OPTIONS == { "build", "research", "math", "ideas" }

Title(option) ==
  CASE option = "build"    -> "Create/Build App"
    [] option = "research" -> "Research & Analysis"
    [] option = "math"     -> "Solve Math Problem"
    [] option = "ideas"    -> "Creative Ideation"

ROLE_DEFINITIONS ==
  [ build |->
      [ A |-> [name |-> "Prompt Refiner", description |-> "Refines user requirements and creates detailed specifications"],
        B |-> [name |-> "Backend Developer", description |-> "Creates backend code, APIs, and database structure"],
        C |-> [name |-> "Frontend Designer", description |-> "Builds UI/UX and frontend components"],
        D |-> [name |-> "Code Reviewer", description |-> "Reviews, optimizes, and fixes code issues"],
        E |-> [name |-> "Documentation Specialist", description |-> "Creates documentation and explanations"] ],
    research |->
      [ A |-> [name |-> "Research Coordinator", description |-> "Defines research scope and methodology"],
        B |-> [name |-> "Data Collector", description |-> "Gathers information from multiple sources"],
        C |-> [name |-> "Research Analyst", description |-> "Analyzes and synthesizes findings"],
        D |-> [name |-> "Fact Checker", description |-> "Verifies accuracy and credibility"],
        E |-> [name |-> "Report Writer", description |-> "Creates final comprehensive report"] ],
    math |->
      [ A |-> [name |-> "Problem Interpreter", description |-> "Understands and structures mathematical problems"],
        B |-> [name |-> "Solution Strategist", description |-> "Develops solution approaches and methods"],
        C |-> [name |-> "Calculator", description |-> "Performs calculations and computations"],
        D |-> [name |-> "Verification Specialist", description |-> "Checks accuracy and alternative methods"],
        E |-> [name |-> "Explainer", description |-> "Provides clear step-by-step explanations"] ],
    ideas |->
      [ A |-> [name |-> "Idea Coordinator", description |-> "Structures and clarifies creative concepts"],
        B |-> [name |-> "Creative Generator", description |-> "Brainstorms and expands ideas"],
        C |-> [name |-> "Feasibility Analyst", description |-> "Evaluates practicality and market potential"],
        D |-> [name |-> "Idea Refiner", description |-> "Polishes and improves concepts"],
        E |-> [name |-> "Implementation Planner", description |-> "Creates actionable next steps"] ] ]

\* Object.keys(roles): the role ids of a template, in insertion order
RoleKeys == << "A", "B", "C", "D", "E" >>

RoleIds == { RoleKeys[i] : i \in 1..Len(RoleKeys) }

----------------------------------------------------------------------------
(* Provider adapter *)

AI_SERVICES == << "openai", "anthropic", "google", "groq" >>

ServiceIds == { AI_SERVICES[i] : i \in 1..Len(AI_SERVICES) }

DEFAULT_MODELS ==
  [ openai    |-> "gpt-4o-mini",
    anthropic |-> "claude-3-haiku-20240307",
    google    |-> "gemini-1.5-flash",
    groq      |-> "llama3-8b-8192" ]

\* the text a provider's 2xx response carries: <<>> when it carries none
RawTexts == { <<>>, <<"response text">> }

\* the messages of the errors a failing request raises
ProviderErrors == { "Request failed with status code 401" }

\* the message of the Error the adapter throws in place of the one it caught
ErrorMessage(serviceId, message) ==
  CASE serviceId = "openai"    -> << "OpenAI Error: ", message >>
    [] serviceId = "anthropic" -> << "Claude Error: ", message >>
    [] serviceId = "google"    -> << "Gemini Error: ", message >>
    [] serviceId = "groq"      -> << "Groq Error: ", message >>

\* a content that is the text of the response as it came
NormalizeContent_AsReceived(raw) == raw

\* `text || 'No response'`
NormalizeContent(raw) == IF raw = <<>> THEN <<"No response">> ELSE raw

\* a choice of model that ignores the caller's
ServiceModel_AlwaysDefault(serviceId, model) == DEFAULT_MODELS[serviceId]

\* `model || DEFAULT_MODELS[serviceId]`, model an optional value
ServiceModel(serviceId, model) ==
  IF model # <<>> /\ model[1] # "" THEN model[1] ELSE DEFAULT_MODELS[serviceId]

----------------------------------------------------------------------------
(* State of the GarageWorkflow component *)

VARIABLES
  selectedOption,   \* prop: the id of the template the workflow was opened with
  connections,      \* context: service id -> optional AIConnection
  roleAssignments,  \* role id -> service id, "" or Undefined
  workflowSteps,    \* sequence of WorkflowStep
  currentStep,
  userPrompt,
  workflowStarted,
  additionalInput,
  showAddMore,
  chains,           \* bag of processStep executions that wait for a provider or a timer
  toast,            \* the notification the latest step emitted (its text), or NoToast
  resets,           \* bounding counters of the model
  assigns

\* State of the MainPage component (compare mode)
VARIABLES
  selectedServices, \* sequence of service ids
  prompt,
  responses,        \* service id -> optional ChatResponse
  isSubmitting,
  selectedImage,    \* optional File
  imagePreview,     \* optional data URL
  readers,          \* the files a FileReader is reading
  calls             \* the callAIService requests of handleSubmit that are in flight

mainPageVars == << selectedServices, prompt, responses, isSubmitting, selectedImage,
                   imagePreview, readers, calls >>

\* State of the provider adapter (AIServiceManager) when it is invoked by itself
VARIABLES
  pendingCall,      \* optional: the callAIService execution that waits at an await
  requests,         \* the HTTP requests axios.post was called with, in order
  outcome,          \* optional: how the latest invocation settled
  invocations       \* how many times callAIService was invoked

adapterVars == << pendingCall, requests, outcome, invocations >>

\* State of AppProviders and of the settings modal
VARIABLES
  theme,
  storage,           \* localStorage: key -> optional value
  apiKeys,           \* service id -> the text of its API key input
  testingConnection, \* optional service id
  tests,             \* the connection tests in flight
  reloadTimer        \* the reload that resetAllSettings scheduled is pending

settingsVars == << theme, storage, apiKeys, testingConnection, tests, reloadTimer >>

\* State of the SettingsPage component
VARIABLES
  pageApiKeys,       \* service id -> the text of its API key input
  modelNames,        \* service id -> the text of its model input
  loading,           \* service id -> its connection is being tested
  connects           \* the handleConnect executions that wait for their test

pageVars == << pageApiKeys, modelNames, loading, connects >>

appVars == << adapterVars, settingsVars, pageVars >>

vars == << selectedOption, connections, roleAssignments, workflowSteps, currentStep,
           userPrompt, workflowStarted, additionalInput, showAddMore, chains, toast,
           resets, assigns, mainPageVars, appVars >>

\* a key that an object does not hold
Undefined == "<undefined>"

\* JavaScript truthiness of an optional string held as a plain value
Truthy(v) == v # Undefined /\ v # ""

NoToast == <<>>

\* a list built from the role ids in reverse order
InitialSteps_Reversed ==
  [ i \in 1..Len(RoleKeys) |->
      [ id       |-> RoleKeys[Len(RoleKeys) + 1 - i],
        role     |-> RoleKeys[Len(RoleKeys) + 1 - i],
        roleName |-> ROLE_DEFINITIONS[selectedOption][RoleKeys[Len(RoleKeys) + 1 - i]].name,
        prompt   |-> <<>>,
        response |-> <<>>,
        status   |-> "pending" ] ]

\* the list both the mount effect and resetWorkflow build from Object.keys(roles)
InitialSteps ==
  [ i \in 1..Len(RoleKeys) |->
      [ id       |-> RoleKeys[i],
        role     |-> RoleKeys[i],
        roleName |-> ROLE_DEFINITIONS[selectedOption][RoleKeys[i]].name,
        prompt   |-> <<>>,
        response |-> <<>>,
        status   |-> "pending" ] ]

\* the connection store the page was opened with, as JSON.parse read it from the
\* persisted 'bunny-connections': two services connected through the settings page,
\* one whose connection test failed, and one record that says 'connected' and holds
\* no apiKey (no handler writes such a record; the store is read as it is found)
InitialConnections ==
  [ openai    |-> << [status |-> "connected", apiKey |-> "sk-openai", model |-> <<"gpt-4o-mini">>] >>,
    anthropic |-> << [status |-> "error", apiKey |-> "", model |-> <<>>] >>,
    google    |-> << [status |-> "connected", apiKey |-> "", model |-> <<>>] >>,
    groq      |-> << [status |-> "connected", apiKey |-> "gsk-groq", model |-> <<"llama3-8b-8192">>] >> ]

\* AppContent: AI_SERVICES.filter(connections[id]?.status === 'connected')
connectedServices ==
  { id \in ServiceIds : connections[id] # <<>> /\ connections[id][1].status = "connected" }

\* the value of a field of a parsed JSON object, as an optional value
FieldOf(fields, name) ==
  LET hits == { i \in DOMAIN fields : fields[i][1] = name } IN
  IF hits = {} THEN <<>> ELSE << fields[CHOOSE i \in hits : TRUE][2] >>

\* a serialization that leaves the apiKey of every connection out
Stringify_WithoutKeys(conns) ==
  [ id \in { s \in ServiceIds : conns[s] # <<>> } |->
      << << "status", conns[id][1].status >> >>
      \o (IF conns[id][1].model # <<>>
          THEN << << "model", conns[id][1].model[1] >> >> ELSE <<>>) ]

\* JSON.stringify(connections): the entries the mapping holds, each with the fields
\* that are defined
Stringify(conns) ==
  [ id \in { s \in ServiceIds : conns[s] # <<>> } |->
      << << "status", conns[id][1].status >> >>
      \o (IF conns[id][1].apiKey # ""
          THEN << << "apiKey", conns[id][1].apiKey >> >> ELSE <<>>)
      \o (IF conns[id][1].model # <<>>
          THEN << << "model", conns[id][1].model[1] >> >> ELSE <<>>) ]

\* JSON.parse of a stored mapping, read as connections[id]?.status, ?.apiKey, ?.model
Parse(json) ==
  [ id \in ServiceIds |->
      IF id \in DOMAIN json
      THEN << [ status |-> FieldOf(json[id], "status")[1],
                apiKey |-> IF FieldOf(json[id], "apiKey") = <<>> THEN ""
                           ELSE FieldOf(json[id], "apiKey")[1],
                model  |-> FieldOf(json[id], "model") ] >>
      ELSE <<>> ]

\* the initial value of the connections state: `saved ? JSON.parse(saved) : {}`
LoadConnections(store) ==
  IF store.connections = <<>> THEN [ id \in ServiceIds |-> <<>> ]
  ELSE Parse(store.connections[1])

\* the initial value of the theme state: `saved || 'dark'`
LoadTheme(store) ==
  IF store.theme = <<>> \/ store.theme[1] = "" THEN "dark" ELSE store.theme[1]

\* the two persistence effects: setItem of 'bunny-theme' and of 'bunny-connections'
Persist(store, t, conns) ==
  [ store EXCEPT !.theme = << t >>, !.connections = << Stringify(conns) >> ]

\* the adapter with no invocation made
AdapterIdle ==
  /\ pendingCall = <<>>
  /\ requests = <<>>
  /\ outcome = <<>>
  /\ invocations = 0

\* AppProviders after its mount effects ran, the settings modal untouched; the store
\* holds a response history an earlier session left
AppStarted ==
  /\ theme = "dark"
  /\ storage = [ theme       |-> << "dark" >>,
                 connections |-> << Stringify(connections) >>,
                 history     |-> << "saved responses" >> ]
  /\ apiKeys = [ id \in ServiceIds |-> "" ]
  /\ testingConnection = <<>>
  /\ tests = {}
  /\ reloadTimer = FALSE

\* the SettingsPage as it is mounted: the values of its useState calls (a key the
\* objects do not hold reads as '' or false)
SettingsPageMounted ==
  /\ pageApiKeys = [ id \in ServiceIds |-> "" ]
  /\ modelNames = [ id \in ServiceIds |-> "" ]
  /\ loading = [ id \in ServiceIds |-> FALSE ]
  /\ connects = {}

\* the state of a MainPage that is not mounted: the values of its useState calls
MainPageUnmounted ==
  /\ selectedServices = <<>>
  /\ prompt = <<>>
  /\ responses = [ id \in ServiceIds |-> <<>> ]
  /\ isSubmitting = FALSE
  /\ selectedImage = <<>>
  /\ imagePreview = <<>>
  /\ readers = {}
  /\ calls = {}

Init ==
  /\ selectedOption \in GARAGE_OPTIONS
  /\ connections = InitialConnections
  /\ roleAssignments = [ r \in RoleIds |-> Undefined ]
  /\ workflowSteps = InitialSteps
  /\ currentStep = 0
  /\ userPrompt = <<>>
  /\ workflowStarted = FALSE
  /\ additionalInput = <<>>
  /\ showAddMore = FALSE
  /\ chains = EmptyBag
  /\ toast = NoToast
  /\ resets = 0
  /\ assigns = 0
  /\ MainPageUnmounted
  /\ AdapterIdle
  /\ AppStarted
  /\ SettingsPageMounted

----------------------------------------------------------------------------
(* Views *)

\* the set-up view is rendered while the run is not started, the active view after
SetupView == ~workflowStarted
ActiveView == workflowStarted

\* a footer rendered under every step while showAddMore is set
FooterSteps_AnyStep ==
  { i \in 0..(Len(workflowSteps) - 1) : showAddMore }

\* the steps whose result item carries the user-interaction footer
FooterSteps ==
  { i \in 0..(Len(workflowSteps) - 1) :
      /\ workflowSteps[i + 1].status # "pending"
      /\ workflowSteps[i + 1].response # <<>>
      /\ workflowSteps[i + 1].status = "user_input"
      /\ showAddMore }

FooterShown == ActiveView /\ FooterSteps # {}

----------------------------------------------------------------------------
(* Prompt rendering *)

\* a rendering of the prompt of step 0 that leaves the user's request out
createRolePrompt_WithoutRequest(step, inputPrompt, stepIndex) ==
  LET roleContext == ROLE_DEFINITIONS[selectedOption][step.role] IN
  IF stepIndex = 0
  THEN << "You are a ", roleContext.name, ". Your role: ", roleContext.description,
          ". The overall goal is to ", Title(selectedOption),
          ". Please refine and structure this request into clear objectives for the team." >>
  ELSE inputPrompt

createRolePrompt(step, inputPrompt, stepIndex) ==
  LET roleContext == ROLE_DEFINITIONS[selectedOption][step.role] IN
  IF stepIndex = 0
  THEN << "You are a ", roleContext.name, ". Your role: ", roleContext.description,
          ". The overall goal is to ", Title(selectedOption), ". User Request: \"" >>
       \o inputPrompt
       \o << "\". Please refine and structure this request into clear objectives for the team." >>
  ELSE inputPrompt

\* a rendering of the next step's prompt that leaves the previous output out
createNextStepPrompt_WithoutOutput(step, currentResponse, nextStepIndex) ==
  LET nextStep == workflowSteps[nextStepIndex + 1]
      nextRole == ROLE_DEFINITIONS[selectedOption][nextStep.role] IN
  << "You are a ", nextRole.name, ". Your role: ", nextRole.description,
     ". The previous step was completed by ", step.roleName,
     ". Based on this, please perform your task." >>

\* nextStepIndex is an index of a step that exists
createNextStepPrompt(step, currentResponse, nextStepIndex) ==
  LET nextStep == workflowSteps[nextStepIndex + 1]
      nextRole == ROLE_DEFINITIONS[selectedOption][nextStep.role] IN
  << "You are a ", nextRole.name, ". Your role: ", nextRole.description,
     ". The previous step was completed by ", step.roleName,
     ", who provided the following: \"" >>
  \o currentResponse
  \o << "\". Based on this, please perform your task." >>

----------------------------------------------------------------------------
(* Role assignment and validation *)

handleRoleAssignment(roleId, aiId) ==
  roleAssignments' = [ roleAssignments EXCEPT ![roleId] = aiId ]

\* Object.keys(roleAssignments) without the filter
assignedRoles_AllKeys(assignments) ==
  { r \in RoleIds : assignments[r] # Undefined }

\* Object.keys(roleAssignments).filter(role => roleAssignments[role])
assignedRoles(assignments) ==
  { role \in { r \in RoleIds : assignments[r] # Undefined } : Truthy(assignments[role]) }

validateSetup ==
  Cardinality(assignedRoles(roleAssignments)) >= 2 /\ Len(Trim(userPrompt)) > 0

----------------------------------------------------------------------------
(* processStep *)

\* a status rule that does not single out step 0
newStatus_AlwaysCompleted(stepIndex) == "completed"

\* the status a step takes when its provider call succeeds
newStatus(stepIndex) == IF stepIndex = 0 THEN "user_input" ELSE "completed"

\* a provider call of processStep that waits for its response
AwaitingCall(stepIndex, assignments, conns, assignedAIId, rolePrompt) ==
  [ stepIndex       |-> stepIndex,
    phase           |-> "awaiting",
    roleAssignments |-> assignments,
    connections     |-> conns,
    request         |-> [ serviceId |-> assignedAIId,
                          prompt    |-> rolePrompt,
                          apiKey    |-> conns[assignedAIId][1].apiKey,
                          model     |-> ServiceModel(assignedAIId, conns[assignedAIId][1].model) ],
    content         |-> <<>> ]

\* a processStep that does not look for the apiKey of the connection
processStep_NoCredentialCheck(stepIndex, inputPrompt, assignments, conns, others) ==
  IF stepIndex \notin 0..(Len(workflowSteps) - 1)
  THEN /\ toast' = NoToast
       /\ chains' = others
       /\ UNCHANGED << workflowSteps, currentStep >>
  ELSE
    LET step == workflowSteps[stepIndex + 1]
        assignedAIId == assignments[step.role] IN
    IF ~Truthy(assignedAIId)
    THEN /\ toast' = << "No AI assigned to role ", step.role >>
         /\ chains' = others
         /\ UNCHANGED << workflowSteps, currentStep >>
    ELSE /\ workflowSteps' =
              [ i \in DOMAIN workflowSteps |->
                  IF i = stepIndex + 1
                  THEN [ workflowSteps[i] EXCEPT !.status = "processing", !.prompt = inputPrompt ]
                  ELSE workflowSteps[i] ]
         /\ currentStep' = stepIndex
         /\ chains' = others (+) SetToBag({ AwaitingCall(stepIndex, assignments, conns,
                                 assignedAIId, createRolePrompt(step, inputPrompt, stepIndex)) })
         /\ toast' = NoToast

\* a processStep that moves the current step before it looks at the assignment
processStep_MovesBeforeCheck(stepIndex, inputPrompt, assignments, conns, others) ==
  IF stepIndex \notin 0..(Len(workflowSteps) - 1)
  THEN /\ toast' = NoToast
       /\ chains' = others
       /\ UNCHANGED << workflowSteps, currentStep >>
  ELSE
    LET step == workflowSteps[stepIndex + 1]
        assignedAIId == assignments[step.role] IN
    IF ~Truthy(assignedAIId)
    THEN /\ toast' = << "No AI assigned to role ", step.role >>
         /\ chains' = others
         /\ currentStep' = stepIndex
         /\ UNCHANGED workflowSteps
    ELSE
      IF conns[assignedAIId] = <<>> \/ conns[assignedAIId][1].apiKey = ""
      THEN /\ toast' = << "API key not found for ", assignedAIId >>
           /\ chains' = others
           /\ UNCHANGED << workflowSteps, currentStep >>
      ELSE /\ workflowSteps' =
                [ i \in DOMAIN workflowSteps |->
                    IF i = stepIndex + 1
                    THEN [ workflowSteps[i] EXCEPT !.status = "processing", !.prompt = inputPrompt ]
                    ELSE workflowSteps[i] ]
           /\ currentStep' = stepIndex
           /\ chains' = others (+) SetToBag({ AwaitingCall(stepIndex, assignments, conns,
                                   assignedAIId, createRolePrompt(step, inputPrompt, stepIndex)) })
           /\ toast' = NoToast

\* the part of processStep that runs before its await, in a render that holds
\* `assignments` and `conns`; `others` are the executions that go on beside it
processStep(stepIndex, inputPrompt, assignments, conns, others) ==
  IF stepIndex \notin 0..(Len(workflowSteps) - 1)
  THEN /\ toast' = NoToast
       /\ chains' = others
       /\ UNCHANGED << workflowSteps, currentStep >>
  ELSE
    LET step == workflowSteps[stepIndex + 1]
        assignedAIId == assignments[step.role] IN
    IF ~Truthy(assignedAIId)
    THEN /\ toast' = << "No AI assigned to role ", step.role >>
         /\ chains' = others
         /\ UNCHANGED << workflowSteps, currentStep >>
    ELSE
      IF conns[assignedAIId] = <<>> \/ conns[assignedAIId][1].apiKey = ""
      THEN /\ toast' = << "API key not found for ", assignedAIId >>
           /\ chains' = others
           /\ UNCHANGED << workflowSteps, currentStep >>
      ELSE /\ workflowSteps' =
                [ i \in DOMAIN workflowSteps |->
                    IF i = stepIndex + 1
                    THEN [ workflowSteps[i] EXCEPT !.status = "processing", !.prompt = inputPrompt ]
                    ELSE workflowSteps[i] ]
           /\ currentStep' = stepIndex
           /\ chains' = others (+) SetToBag({ AwaitingCall(stepIndex, assignments, conns,
                                   assignedAIId, createRolePrompt(step, inputPrompt, stepIndex)) })
           /\ toast' = NoToast

\* an answer that is stored and schedules no timer
ProviderResponds_NoTimer(c, raw) ==
  /\ BagIn(c, chains)
  /\ c.phase = "awaiting"
  /\ workflowSteps' =
       [ i \in DOMAIN workflowSteps |->
           IF i = c.stepIndex + 1
           THEN [ workflowSteps[i] EXCEPT !.status = newStatus(c.stepIndex),
                                          !.response = << NormalizeContent(raw) >> ]
           ELSE workflowSteps[i] ]
  /\ showAddMore' = IF newStatus(c.stepIndex) = "user_input" THEN TRUE ELSE showAddMore
  /\ chains' = chains (-) SetToBag({c})
  /\ toast' = IF newStatus(c.stepIndex) # "user_input" /\ c.stepIndex = Len(workflowSteps) - 1
              THEN << "Workflow completed successfully!" >> ELSE NoToast
  /\ UNCHANGED << selectedOption, connections, roleAssignments, currentStep, userPrompt,
                  workflowStarted, additionalInput, resets, assigns >>

\* the provider answers a call in flight with a 2xx response carrying `raw`
ProviderResponds(c, raw) ==
  /\ BagIn(c, chains)
  /\ c.phase = "awaiting"
  /\ LET content == NormalizeContent(raw)
         status == newStatus(c.stepIndex) IN
     /\ workflowSteps' =
          [ i \in DOMAIN workflowSteps |->
              IF i = c.stepIndex + 1
              THEN [ workflowSteps[i] EXCEPT !.status = status, !.response = << content >> ]
              ELSE workflowSteps[i] ]
     /\ IF status = "user_input"
        THEN /\ showAddMore' = TRUE
             /\ chains' = chains (-) SetToBag({c})
             /\ toast' = NoToast
        ELSE IF c.stepIndex < Len(workflowSteps) - 1
        THEN /\ chains' = (chains (-) SetToBag({c}))
                            (+) SetToBag({ [ c EXCEPT !.phase = "timer", !.content = content ] })
             /\ toast' = NoToast
             /\ UNCHANGED showAddMore
        ELSE /\ chains' = chains (-) SetToBag({c})
             /\ toast' = << "Workflow completed successfully!" >>
             /\ UNCHANGED showAddMore
  /\ UNCHANGED << selectedOption, connections, roleAssignments, currentStep, userPrompt,
                  workflowStarted, additionalInput, resets, assigns >>

\* a catch block that reports the error and leaves the step as it is
ProviderFails_KeepsProcessing(c, message) ==
  /\ BagIn(c, chains)
  /\ c.phase = "awaiting"
  /\ toast' = << "Error in ", workflowSteps[c.stepIndex + 1].roleName, ": " >>
                \o ErrorMessage(c.request.serviceId, message)
  /\ chains' = chains (-) SetToBag({c})
  /\ UNCHANGED << selectedOption, connections, roleAssignments, workflowSteps, currentStep,
                  userPrompt, workflowStarted, additionalInput, showAddMore, resets, assigns >>

\* a catch block that also drops the output the step holds
ProviderFails_DropsOutput(c, message) ==
  /\ BagIn(c, chains)
  /\ c.phase = "awaiting"
  /\ toast' = << "Error in ", workflowSteps[c.stepIndex + 1].roleName, ": " >>
                \o ErrorMessage(c.request.serviceId, message)
  /\ workflowSteps' =
       [ i \in DOMAIN workflowSteps |->
           IF i = c.stepIndex + 1
           THEN [ workflowSteps[i] EXCEPT !.status = "pending", !.response = <<>> ]
           ELSE workflowSteps[i] ]
  /\ chains' = chains (-) SetToBag({c})
  /\ UNCHANGED << selectedOption, connections, roleAssignments, currentStep, userPrompt,
                  workflowStarted, additionalInput, showAddMore, resets, assigns >>

\* the call in flight throws `message` (a non-2xx response or a transport failure)
ProviderFails(c, message) ==
  /\ BagIn(c, chains)
  /\ c.phase = "awaiting"
  /\ toast' = << "Error in ", workflowSteps[c.stepIndex + 1].roleName, ": " >>
                \o ErrorMessage(c.request.serviceId, message)
  /\ workflowSteps' =
       [ i \in DOMAIN workflowSteps |->
           IF i = c.stepIndex + 1
           THEN [ workflowSteps[i] EXCEPT !.status = "pending" ]
           ELSE workflowSteps[i] ]
  /\ chains' = chains (-) SetToBag({c})
  /\ UNCHANGED << selectedOption, connections, roleAssignments, currentStep, userPrompt,
                  workflowStarted, additionalInput, showAddMore, resets, assigns >>

\* a timer callback that reads the role assignments of the current render
TimerFires_CurrentRender(c) ==
  /\ BagIn(c, chains)
  /\ c.phase = "timer"
  /\ processStep(c.stepIndex + 1,
                 createNextStepPrompt(workflowSteps[c.stepIndex + 1], c.content, c.stepIndex + 1),
                 roleAssignments, connections, chains (-) SetToBag({c}))
  /\ UNCHANGED << selectedOption, connections, roleAssignments, userPrompt,
                  workflowStarted, additionalInput, showAddMore, resets, assigns >>

\* the 1000 ms timer of a completed step fires
TimerFires(c) ==
  /\ BagIn(c, chains)
  /\ c.phase = "timer"
  /\ processStep(c.stepIndex + 1,
                 createNextStepPrompt(workflowSteps[c.stepIndex + 1], c.content, c.stepIndex + 1),
                 c.roleAssignments, c.connections, chains (-) SetToBag({c}))
  /\ UNCHANGED << selectedOption, connections, roleAssignments, userPrompt,
                  workflowStarted, additionalInput, showAddMore, resets, assigns >>

----------------------------------------------------------------------------
(* The user's operations *)

\* the services the user picks from for each role
TeamPlan ==
  [ A |-> { "openai" }, B |-> { "groq" }, C |-> { "openai", "google" },
    D |-> { "groq" }, E |-> { "openai" } ]

\* an ai-chip of the pool of a role that holds no service is clicked
AssignRole(roleId, aiId) ==
  /\ SetupView
  /\ aiId \in TeamPlan[roleId]
  /\ ~Truthy(roleAssignments[roleId])
  /\ aiId \in connectedServices
  /\ assigns < MaxAssign
  /\ assigns' = assigns + 1
  /\ handleRoleAssignment(roleId, aiId)
  /\ toast' = NoToast
  /\ UNCHANGED << selectedOption, connections, workflowSteps, currentStep, userPrompt,
                  workflowStarted, additionalInput, showAddMore, chains, resets >>

\* the card of an assigned service (or its unassign button) is clicked
UnassignRole(roleId) ==
  /\ SetupView
  /\ Truthy(roleAssignments[roleId])
  /\ Cardinality({ r \in RoleIds : roleAssignments[r] = "" }) < MaxUnassigned
  /\ handleRoleAssignment(roleId, "")
  /\ toast' = NoToast
  /\ UNCHANGED << selectedOption, connections, workflowSteps, currentStep, userPrompt,
                  workflowStarted, additionalInput, showAddMore, chains, resets, assigns >>

\* the task textarea of the set-up view changes
TypeUserPrompt(text) ==
  /\ SetupView
  /\ text # userPrompt
  /\ userPrompt' = text
  /\ toast' = NoToast
  /\ UNCHANGED << selectedOption, connections, roleAssignments, workflowSteps, currentStep,
                  workflowStarted, additionalInput, showAddMore, chains, resets, assigns >>

\* workflowSteps.find(s => s.id === 'A')?.prompt || userPrompt
currentPromptForStep0 ==
  LET found == { i \in DOMAIN workflowSteps : workflowSteps[i].id = "A" } IN
  IF found # {} /\ workflowSteps[CHOOSE i \in found : \A j \in found : i <= j].prompt # <<>>
  THEN workflowSteps[CHOOSE i \in found : \A j \in found : i <= j].prompt
  ELSE userPrompt

AdditionalLabel == "\n\nAdditional requirements: "

\* how many refinements a prompt of stage 0 holds
Refinements(text) == Cardinality({ i \in DOMAIN text : text[i] = AdditionalLabel })

\* the textarea of the user-interaction footer changes
TypeAdditionalInput(text) ==
  /\ FooterShown
  /\ text # additionalInput
  /\ \/ text \in { <<>>, << Blank >> }
     \/ /\ Refinements(currentPromptForStep0) < MaxRefine
        /\ Refinements(currentPromptForStep0) < Len(RefinementPlan)
        /\ text = RefinementPlan[Refinements(currentPromptForStep0) + 1]
  /\ additionalInput' = text
  /\ toast' = NoToast
  /\ UNCHANGED << selectedOption, connections, roleAssignments, workflowSteps, currentStep,
                  userPrompt, workflowStarted, showAddMore, chains, resets, assigns >>

\* the handler of the start button; the button is rendered disabled while
\* validateSetup() is false, the handler rejects such a call by itself
startWorkflow ==
  /\ SetupView
  /\ IF ~validateSetup
     THEN /\ toast' = << "Please assign at least 2 AIs and enter a task description!" >>
          /\ UNCHANGED << workflowStarted, workflowSteps, currentStep, chains >>
     ELSE /\ workflowStarted' = TRUE
          /\ processStep(0, userPrompt, roleAssignments, connections, chains)
  /\ UNCHANGED << selectedOption, connections, roleAssignments, userPrompt, additionalInput,
                  showAddMore, resets, assigns >>

combinedPrompt ==
  currentPromptForStep0 \o << AdditionalLabel >> \o additionalInput

\* the handler of "Refine & Rerun"; the button is rendered disabled while the
\* refinement text is blank, the handler rejects such a call by itself
handleAddMore ==
  /\ FooterShown
  /\ IF Len(Trim(additionalInput)) = 0
     THEN /\ toast' = << "Please enter additional requirements!" >>
          /\ UNCHANGED << additionalInput, showAddMore, workflowSteps, currentStep, chains >>
     ELSE /\ Refinements(currentPromptForStep0) < MaxRefine
          /\ additionalInput' = <<>>
          /\ showAddMore' = FALSE
          /\ processStep(0, combinedPrompt, roleAssignments, connections, chains)
  /\ UNCHANGED << selectedOption, connections, roleAssignments, userPrompt, workflowStarted,
                  resets, assigns >>

\* a handlePassToNext that leaves the footer in place
handlePassToNext_KeepsFooter ==
  /\ FooterShown
  /\ LET currentStepData == workflowSteps[currentStep + 1] IN
     IF currentStepData.response # <<>>
     THEN /\ UNCHANGED showAddMore
          /\ IF currentStep + 1 \in 0..(Len(workflowSteps) - 1)
             THEN processStep(currentStep + 1,
                              createNextStepPrompt(currentStepData, currentStepData.response[1],
                                                   currentStep + 1),
                              roleAssignments, connections, chains)
             ELSE /\ toast' = NoToast
                  /\ UNCHANGED << workflowSteps, currentStep, chains >>
     ELSE /\ toast' = NoToast
          /\ UNCHANGED << showAddMore, workflowSteps, currentStep, chains >>
  /\ UNCHANGED << selectedOption, connections, roleAssignments, userPrompt, workflowStarted,
                  additionalInput, resets, assigns >>

handlePassToNext ==
  /\ FooterShown
  /\ LET currentStepData == workflowSteps[currentStep + 1] IN
     IF currentStepData.response # <<>>
     THEN /\ showAddMore' = FALSE
          /\ IF currentStep + 1 \in 0..(Len(workflowSteps) - 1)
             THEN processStep(currentStep + 1,
                              createNextStepPrompt(currentStepData, currentStepData.response[1],
                                                   currentStep + 1),
                              roleAssignments, connections, chains)
             ELSE \* createNextStepPrompt reads .role of undefined and throws
                  /\ toast' = NoToast
                  /\ UNCHANGED << workflowSteps, currentStep, chains >>
     ELSE /\ toast' = NoToast
          /\ UNCHANGED << showAddMore, workflowSteps, currentStep, chains >>
  /\ UNCHANGED << selectedOption, connections, roleAssignments, userPrompt, workflowStarted,
                  additionalInput, resets, assigns >>

\* a resetWorkflow that also drops the executions in flight
resetWorkflow_CancelsCalls ==
  /\ ActiveView
  /\ resets < MaxResets
  /\ resets' = resets + 1
  /\ workflowStarted' = FALSE
  /\ currentStep' = 0
  /\ userPrompt' = <<>>
  /\ additionalInput' = <<>>
  /\ showAddMore' = FALSE
  /\ roleAssignments' = [ r \in RoleIds |-> Undefined ]
  /\ workflowSteps' = InitialSteps
  /\ chains' = EmptyBag
  /\ toast' = NoToast
  /\ UNCHANGED << selectedOption, connections, assigns >>

\* a resetWorkflow that keeps the role assignments
resetWorkflow_KeepsAssignments ==
  /\ ActiveView
  /\ resets < MaxResets
  /\ resets' = resets + 1
  /\ workflowStarted' = FALSE
  /\ currentStep' = 0
  /\ userPrompt' = <<>>
  /\ additionalInput' = <<>>
  /\ showAddMore' = FALSE
  /\ workflowSteps' = InitialSteps
  /\ toast' = NoToast
  /\ UNCHANGED << selectedOption, connections, roleAssignments, chains, assigns >>

resetWorkflow ==
  /\ ActiveView
  /\ resets < MaxResets
  /\ resets' = resets + 1
  /\ workflowStarted' = FALSE
  /\ currentStep' = 0
  /\ userPrompt' = <<>>
  /\ additionalInput' = <<>>
  /\ showAddMore' = FALSE
  /\ roleAssignments' = [ r \in RoleIds |-> Undefined ]
  /\ workflowSteps' = InitialSteps
  /\ toast' = NoToast
  /\ UNCHANGED << selectedOption, connections, chains, assigns >>

----------------------------------------------------------------------------

\* the garage page is shown: MainPage is not mounted
Next ==
  \/ \E roleId \in RoleIds, aiId \in ServiceIds :
       AssignRole(roleId, aiId) /\ UNCHANGED << mainPageVars, appVars >>
  \/ \E roleId \in RoleIds : UnassignRole(roleId) /\ UNCHANGED << mainPageVars, appVars >>
  \/ \E text \in UserPrompts : TypeUserPrompt(text) /\ UNCHANGED << mainPageVars, appVars >>
  \/ \E text \in AdditionalInputs : TypeAdditionalInput(text) /\ UNCHANGED << mainPageVars, appVars >>
  \/ startWorkflow /\ UNCHANGED << mainPageVars, appVars >>
  \/ handleAddMore /\ UNCHANGED << mainPageVars, appVars >>
  \/ handlePassToNext /\ UNCHANGED << mainPageVars, appVars >>
  \/ resetWorkflow /\ UNCHANGED << mainPageVars, appVars >>
  \/ \E c \in BagToSet(chains), raw \in RawTexts :
       ProviderResponds(c, raw) /\ UNCHANGED << mainPageVars, appVars >>
  \/ \E c \in BagToSet(chains), message \in ProviderErrors :
       ProviderFails(c, message) /\ UNCHANGED << mainPageVars, appVars >>
  \/ \E c \in BagToSet(chains) : TimerFires(c) /\ UNCHANGED << mainPageVars, appVars >>

Spec == Init /\ [][Next]_vars

\* a call in flight is answered
Answers ==
  \E c \in BagToSet(chains), raw \in RawTexts :
    ProviderResponds(c, raw) /\ UNCHANGED << mainPageVars, appVars >>

\* a pending timer fires
Advances ==
  \E c \in BagToSet(chains) : TimerFires(c) /\ UNCHANGED << mainPageVars, appVars >>

\* the garage page in the runs where every provider call succeeds and the workflow
\* is not reset
RunNext ==
  \/ \E roleId \in RoleIds, aiId \in ServiceIds :
       AssignRole(roleId, aiId) /\ UNCHANGED << mainPageVars, appVars >>
  \/ \E roleId \in RoleIds : UnassignRole(roleId) /\ UNCHANGED << mainPageVars, appVars >>
  \/ \E text \in UserPrompts : TypeUserPrompt(text) /\ UNCHANGED << mainPageVars, appVars >>
  \/ \E text \in AdditionalInputs : TypeAdditionalInput(text) /\ UNCHANGED << mainPageVars, appVars >>
  \/ startWorkflow /\ UNCHANGED << mainPageVars, appVars >>
  \/ handleAddMore /\ UNCHANGED << mainPageVars, appVars >>
  \/ handlePassToNext /\ UNCHANGED << mainPageVars, appVars >>
  \/ Answers
  \/ Advances

\* every call is answered and every timer fires at some time
RunSpec == Init /\ [][RunNext]_vars /\ WF_vars(Answers) /\ WF_vars(Advances)

----------------------------------------------------------------------------
(* MainPage: compare mode *)

\* AI_SERVICES[].name
ServiceName(id) ==
  CASE id = "openai"    -> "ChatGPT"
    [] id = "anthropic" -> "Claude"
    [] id = "google"    -> "Gemini"
    [] id = "groq"      -> "Groq"

\* the files the user picks: an image and a file that is none
Files == { [ name |-> "photo.png", type |-> "image/png" ],
           [ name |-> "notes.txt", type |-> "text/plain" ] }

\* file.type.startsWith('image/')
IsImage(file) == file.type \in { "image/png" }

\* array.includes
Includes(seq, x) == \E i \in DOMAIN seq : seq[i] = x

\* array.filter(id => id !== x)
Without(seq, x) == SelectSeq(seq, LAMBDA y : y # x)

\* the mount effect: the ids of the connected services, in the order of AI_SERVICES
connectedIds ==
  SelectSeq(AI_SERVICES,
            LAMBDA id : connections[id] # <<>> /\ connections[id][1].status = "connected")

\* AI_SERVICES.filter(s => selectedServices.includes(s.id))
servicesToQuery == SelectSeq(AI_SERVICES, LAMBDA id : Includes(selectedServices, id))

\* !connection?.apiKey
NoApiKey(id) == connections[id] = <<>> \/ connections[id][1].apiKey = ""

\* the cell handleSubmit creates for a service
InitialResponse(id) ==
  [ service |-> id, content |-> <<>>, loading |-> TRUE, error |-> <<>> ]

\* the cell after the catch block of a call ran
FailedResponse(cell, message) ==
  [ cell EXCEPT !.content = <<>>, !.loading = FALSE, !.error = << message >> ]

\* the cell after a call resolved
SucceededResponse(cell, content) ==
  [ cell EXCEPT !.content = content, !.loading = FALSE ]

\* the request of a call of handleSubmit
Request(id, currentPrompt, currentImage) ==
  [ serviceId |-> id,
    prompt    |-> currentPrompt,
    apiKey    |-> connections[id][1].apiKey,
    model     |-> ServiceModel(id, connections[id][1].model),
    image     |-> currentImage ]

\* MainPage is mounted: its mount effect has selected the connected services
MainInit ==
  /\ selectedOption = "build"
  /\ connections = InitialConnections
  /\ roleAssignments = [ r \in RoleIds |-> Undefined ]
  /\ workflowSteps = <<>>
  /\ currentStep = 0
  /\ userPrompt = <<>>
  /\ workflowStarted = FALSE
  /\ additionalInput = <<>>
  /\ showAddMore = FALSE
  /\ chains = EmptyBag
  /\ toast = NoToast
  /\ resets = 0
  /\ assigns = 0
  /\ selectedServices = connectedIds
  /\ prompt = <<>>
  /\ responses = [ id \in ServiceIds |-> <<>> ]
  /\ isSubmitting = FALSE
  /\ selectedImage = <<>>
  /\ imagePreview = <<>>
  /\ readers = {}
  /\ calls = {}
  /\ AdapterIdle
  /\ AppStarted
  /\ SettingsPageMounted

garageVars == << selectedOption, connections, roleAssignments, workflowSteps, currentStep,
                 userPrompt, workflowStarted, additionalInput, showAddMore, chains,
                 resets, assigns >>

\* a toggle that does not look at the connection of the service
handleServiceToggle_NoCheck(serviceId) ==
  /\ selectedServices' =
       IF Includes(selectedServices, serviceId)
       THEN Without(selectedServices, serviceId)
       ELSE Append(selectedServices, serviceId)
  /\ toast' = NoToast
  /\ UNCHANGED << garageVars, appVars, prompt, responses, isSubmitting, selectedImage,
                  imagePreview, readers, calls >>

handleServiceToggle(serviceId) ==
  /\ IF connections[serviceId] = <<>> \/ connections[serviceId][1].status # "connected"
     THEN /\ toast' = << ServiceName(serviceId), " is not connected." >>
          /\ UNCHANGED selectedServices
     ELSE /\ selectedServices' =
               IF Includes(selectedServices, serviceId)
               THEN Without(selectedServices, serviceId)
               ELSE Append(selectedServices, serviceId)
          /\ toast' = NoToast
  /\ UNCHANGED << garageVars, appVars, prompt, responses, isSubmitting, selectedImage,
                  imagePreview, readers, calls >>

\* the textarea changes; it is disabled while a submission runs
TypePrompt(text) ==
  /\ ~isSubmitting
  /\ text # prompt
  /\ prompt' = text
  /\ toast' = NoToast
  /\ UNCHANGED << garageVars, appVars, selectedServices, responses, isSubmitting, selectedImage,
                  imagePreview, readers, calls >>

handleFileChange(file) ==
  /\ IF IsImage(file)
     THEN /\ selectedImage' = << file.name >>
          /\ readers' = readers \cup { file.name }
          /\ toast' = NoToast
     ELSE /\ toast' = << "Please select a valid image file." >>
          /\ UNCHANGED << selectedImage, readers >>
  /\ UNCHANGED << garageVars, appVars, selectedServices, prompt, responses, isSubmitting,
                  imagePreview, calls >>

\* reader.onloadend
ImageLoaded(name) ==
  /\ name \in readers
  /\ readers' = readers \ { name }
  /\ imagePreview' = << name >>
  /\ toast' = NoToast
  /\ UNCHANGED << garageVars, appVars, selectedServices, prompt, responses, isSubmitting,
                  selectedImage, calls >>

\* the remove button of the preview is clicked
removeImage ==
  /\ imagePreview # <<>>
  /\ selectedImage' = <<>>
  /\ imagePreview' = <<>>
  /\ toast' = NoToast
  /\ UNCHANGED << garageVars, appVars, selectedServices, prompt, responses, isSubmitting,
                  readers, calls >>

\* a handleSubmit that does not look at isSubmitting
handleSubmit_IgnoresFlag ==
  /\ IF Len(selectedServices) = 0
     THEN /\ toast' = << "Please select at least one AI service to prompt!" >>
          /\ UNCHANGED << prompt, responses, isSubmitting, selectedImage, imagePreview, calls >>
     ELSE IF Len(Trim(prompt)) = 0 /\ selectedImage = <<>>
     THEN /\ toast' = NoToast
          /\ UNCHANGED << prompt, responses, isSubmitting, selectedImage, imagePreview, calls >>
     ELSE LET thrown == SelectSeq(servicesToQuery, NoApiKey)
              called == SelectSeq(servicesToQuery, LAMBDA id : ~NoApiKey(id)) IN
          /\ prompt' = <<>>
          /\ selectedImage' = <<>>
          /\ imagePreview' = <<>>
          /\ responses' =
               [ id \in ServiceIds |->
                   IF ~Includes(servicesToQuery, id) THEN <<>>
                   ELSE IF NoApiKey(id)
                   THEN << FailedResponse(InitialResponse(id), << "API key not found" >>) >>
                   ELSE << InitialResponse(id) >> ]
          /\ calls' = calls \cup { Request(called[i], prompt, selectedImage) : i \in DOMAIN called }
          /\ isSubmitting' = (calls' # {})
          /\ toast' = IF thrown = <<>> THEN NoToast
                      ELSE << ServiceName(thrown[Len(thrown)]), ": ", "API key not found" >>
  /\ UNCHANGED << garageVars, appVars, selectedServices, readers >>

\* handleSubmit, up to its `await Promise.allSettled(promises)`: a service without
\* apiKey throws before its call is made, and its catch block runs within the step
handleSubmit ==
  /\ IF Len(selectedServices) = 0
     THEN /\ toast' = << "Please select at least one AI service to prompt!" >>
          /\ UNCHANGED << prompt, responses, isSubmitting, selectedImage, imagePreview, calls >>
     ELSE IF (Len(Trim(prompt)) = 0 /\ selectedImage = <<>>) \/ isSubmitting
     THEN /\ toast' = NoToast
          /\ UNCHANGED << prompt, responses, isSubmitting, selectedImage, imagePreview, calls >>
     ELSE LET currentPrompt == prompt
              currentImage == selectedImage
              thrown == SelectSeq(servicesToQuery, NoApiKey)
              called == SelectSeq(servicesToQuery, LAMBDA id : ~NoApiKey(id)) IN
          /\ prompt' = <<>>
          /\ selectedImage' = <<>>
          /\ imagePreview' = <<>>
          /\ responses' =
               [ id \in ServiceIds |->
                   IF ~Includes(servicesToQuery, id) THEN <<>>
                   ELSE IF NoApiKey(id)
                   THEN << FailedResponse(InitialResponse(id), << "API key not found" >>) >>
                   ELSE << InitialResponse(id) >> ]
          /\ calls' = calls \cup
               { Request(called[i], currentPrompt, currentImage) : i \in DOMAIN called }
          /\ isSubmitting' = (called # <<>>)
          /\ toast' = IF thrown = <<>> THEN NoToast
                      ELSE << ServiceName(thrown[Len(thrown)]), ": ", "API key not found" >>
  /\ UNCHANGED << garageVars, appVars, selectedServices, readers >>

\* a resolving call that clears the flag without waiting for the others
CallSucceeds_ClearsFlag(req, raw) ==
  /\ req \in calls
  /\ responses' =
       [ responses EXCEPT ![req.serviceId] =
           << SucceededResponse(responses[req.serviceId][1], NormalizeContent(raw)) >> ]
  /\ calls' = calls \ { req }
  /\ isSubmitting' = FALSE
  /\ toast' = NoToast
  /\ UNCHANGED << garageVars, appVars, selectedServices, prompt, selectedImage, imagePreview, readers >>

\* the call of a service resolves with a 2xx response carrying `raw`; when it is the
\* last one to settle, Promise.allSettled resolves and the flag is cleared
CallSucceeds(req, raw) ==
  /\ req \in calls
  /\ responses' =
       [ responses EXCEPT ![req.serviceId] =
           << SucceededResponse(responses[req.serviceId][1], NormalizeContent(raw)) >> ]
  /\ calls' = calls \ { req }
  /\ isSubmitting' = IF calls' = {} THEN FALSE ELSE isSubmitting
  /\ toast' = NoToast
  /\ UNCHANGED << garageVars, appVars, selectedServices, prompt, selectedImage, imagePreview, readers >>

\* a failing call that marks every cell still loading as failed
CallFails_FailsAll(req, message) ==
  /\ req \in calls
  /\ responses' =
       [ id \in ServiceIds |->
           IF responses[id] # <<>> /\ responses[id][1].loading
           THEN << FailedResponse(responses[id][1], ErrorMessage(req.serviceId, message)) >>
           ELSE responses[id] ]
  /\ calls' = calls \ { req }
  /\ isSubmitting' = IF calls' = {} THEN FALSE ELSE isSubmitting
  /\ toast' = << ServiceName(req.serviceId), ": " >> \o ErrorMessage(req.serviceId, message)
  /\ UNCHANGED << garageVars, appVars, selectedServices, prompt, selectedImage, imagePreview, readers >>

\* the call of a service throws
CallFails(req, message) ==
  /\ req \in calls
  /\ responses' =
       [ responses EXCEPT ![req.serviceId] =
           << FailedResponse(responses[req.serviceId][1],
                             ErrorMessage(req.serviceId, message)) >> ]
  /\ calls' = calls \ { req }
  /\ isSubmitting' = IF calls' = {} THEN FALSE ELSE isSubmitting
  /\ toast' = << ServiceName(req.serviceId), ": " >> \o ErrorMessage(req.serviceId, message)
  /\ UNCHANGED << garageVars, appVars, selectedServices, prompt, selectedImage, imagePreview, readers >>

\* the call of a service settles
Settles(id) ==
  \E req \in calls :
    /\ req.serviceId = id
    /\ \/ \E raw \in RawTexts : CallSucceeds(req, raw)
       \/ \E message \in ProviderErrors : CallFails(req, message)

\* the main page is shown: GarageWorkflow is not mounted
MainNext ==
  \/ \E serviceId \in ServiceIds : handleServiceToggle(serviceId)
  \/ \E text \in UserPrompts : TypePrompt(text)
  \/ \E file \in Files : handleFileChange(file)
  \/ \E name \in readers : ImageLoaded(name)
  \/ removeImage
  \/ handleSubmit
  \/ \E req \in calls, raw \in RawTexts : CallSucceeds(req, raw)
  \/ \E req \in calls, message \in ProviderErrors : CallFails(req, message)

\* every call in flight settles at some time
MainSpec ==
  MainInit /\ [][MainNext]_vars /\ \A id \in ServiceIds : WF_vars(Settles(id))

----------------------------------------------------------------------------
(* The provider adapter invoked by itself *)

\* a service id that callAIService has no case for
UnsupportedIds == { "mistral" }

AdapterIds == ServiceIds \cup UnsupportedIds

\* the `model` argument: omitted, empty, or a name
Models == { <<>>, << "" >>, << "gpt-4o" >> }

\* a text field of a response: missing, empty, or a text
Texts == { <<>>, << "" >>, << "response text" >> }

\* the data of a 2xx response of the chat/completions endpoints (OpenAI, Groq); a
\* field that may be missing is an optional value, an array is a sequence
ChatBodies ==
  { [ choices |-> <<>> ], [ choices |-> << <<>> >> ],
    [ choices |-> << << [ message |-> <<>> ] >> >> ] }
  \cup { [ choices |-> << << [ message |-> << [ content |-> t ] >> ] >> >> ] : t \in Texts }

\* the data of a 2xx response of the Anthropic messages endpoint
ClaudeBodies ==
  { [ content |-> <<>> ], [ content |-> << <<>> >> ] }
  \cup { [ content |-> << << [ text |-> t ] >> >> ] : t \in Texts }

\* the data of a 2xx response of the Gemini generateContent endpoint
GeminiBodies ==
  { [ candidates |-> <<>> ], [ candidates |-> << <<>> >> ],
    [ candidates |-> << << [ content |-> <<>> ] >> >> ],
    [ candidates |-> << << [ content |-> << [ parts |-> <<>> ] >> ] >> >> ],
    [ candidates |-> << << [ content |-> << [ parts |-> << <<>> >> ] >> ] >> >> ] }
  \cup { [ candidates |-> << << [ content |-> << [ parts |-> << << [ text |-> t ] >> >> ] >> ] >> >> ]
         : t \in Texts }

Bodies(serviceId) ==
  CASE serviceId = "openai"    -> ChatBodies
    [] serviceId = "anthropic" -> ClaudeBodies
    [] serviceId = "google"    -> GeminiBodies
    [] serviceId = "groq"      -> ChatBodies

\* what reading the text of a response gives: a TypeError, or an optional text
Threw == [ threw |-> TRUE, text |-> <<>> ]
Read(text) == [ threw |-> FALSE, text |-> text ]

\* response.data.choices[0]?.message?.content
ChatText(data) ==
  IF data.choices = <<>> THEN Threw
  ELSE IF data.choices[1] = <<>> THEN Read(<<>>)
  ELSE IF data.choices[1][1].message = <<>> THEN Read(<<>>)
  ELSE Read(data.choices[1][1].message[1].content)

\* response.data.content[0]?.text
ClaudeText(data) ==
  IF data.content = <<>> THEN Threw
  ELSE IF data.content[1] = <<>> THEN Read(<<>>)
  ELSE Read(data.content[1][1].text)

\* response.data.candidates?.[0]?.content?.parts?.[0]?.text
GeminiText(data) ==
  IF data.candidates = <<>> THEN Read(<<>>)
  ELSE IF data.candidates[1] = <<>> THEN Read(<<>>)
  ELSE IF data.candidates[1][1].content = <<>> THEN Read(<<>>)
  ELSE IF data.candidates[1][1].content[1].parts = <<>> THEN Read(<<>>)
  ELSE IF data.candidates[1][1].content[1].parts[1] = <<>> THEN Read(<<>>)
  ELSE Read(data.candidates[1][1].content[1].parts[1][1].text)

ResponseText(serviceId, data) ==
  CASE serviceId = "openai"    -> ChatText(data)
    [] serviceId = "anthropic" -> ClaudeText(data)
    [] serviceId = "google"    -> GeminiText(data)
    [] serviceId = "groq"      -> ChatText(data)

\* an optional string as the operand of `|| 'No response'`: a text, or none
Raw(text) == IF text = <<>> \/ text[1] = "" THEN <<>> ELSE << text[1] >>

TypeErrorMessage == "Cannot read properties of undefined (reading '0')"

\* the errors axios.post rejects with: no response at all, a response with an error
\* message of the provider, a response without one
AxiosErrors ==
  { [ message |-> "Network Error", response |-> <<>> ],
    [ message |-> "Request failed with status code 401",
      response |-> << "Incorrect API key provided" >> ],
    [ message |-> "Request failed with status code 500", response |-> << "" >> ] }

\* error.response?.data?.error?.message || error.message
Detail(error) ==
  IF error.response # <<>> /\ error.response[1] # "" THEN error.response[1]
  ELSE error.message

\* how a promise of the adapter settles
Resolved(content) == [ kind |-> "resolved", content |-> content, message |-> <<>> ]
Rejected(message) == [ kind |-> "rejected", content |-> <<>>, message |-> message ]

\* the promise of a call whose axios.post resolved with `data`
AfterResponse(serviceId, data) ==
  IF ResponseText(serviceId, data).threw
  THEN Rejected(ErrorMessage(serviceId, TypeErrorMessage))
  ELSE Resolved(NormalizeContent(Raw(ResponseText(serviceId, data).text)))

\* the promise of a call whose axios.post rejected with `error`
AfterError(serviceId, error) == Rejected(ErrorMessage(serviceId, Detail(error)))

\* the request axios.post is called with; the model is a field of the body, or for
\* Gemini a part of the URL; only Gemini is given the image
HttpRequest(serviceId, text, apiKey, serviceModel, image) ==
  [ serviceId |-> serviceId,
    prompt    |-> text,
    apiKey    |-> apiKey,
    model     |-> serviceModel,
    image     |-> IF serviceId = "google" THEN image ELSE <<>> ]

\* a testConnection without its try/catch
Conclude_Rethrows(op, serviceId, result) ==
  [ op |-> op, serviceId |-> serviceId, inner |-> result.kind, kind |-> result.kind,
    content |-> result.content, message |-> result.message,
    returned |-> IF op = "testConnection" /\ result.kind = "resolved"
                 THEN << TRUE >> ELSE <<>> ]

\* how the invoked operation settles once its callAIService promise has settled with
\* `result`: callAIService hands it on, testConnection returns whether it resolved
Conclude(op, serviceId, result) ==
  IF op = "testConnection"
  THEN [ op |-> op, serviceId |-> serviceId, inner |-> result.kind, kind |-> "resolved",
         content |-> <<>>, message |-> <<>>, returned |-> << result.kind = "resolved" >> ]
  ELSE [ op |-> op, serviceId |-> serviceId, inner |-> result.kind, kind |-> result.kind,
         content |-> result.content, message |-> result.message, returned |-> <<>> ]

otherThanAdapter == << selectedOption, connections, roleAssignments, workflowSteps,
                       currentStep, userPrompt, workflowStarted, additionalInput,
                       showAddMore, chains, toast, resets, assigns, mainPageVars,
                       settingsVars, pageVars >>

\* callAIService up to its first await, invoked by `op`
Invoke(op, serviceId, text, apiKey, model, image) ==
  /\ pendingCall = <<>>
  /\ invocations' = 1
  /\ IF serviceId \notin ServiceIds
     THEN /\ requests' = <<>>
          /\ pendingCall' = <<>>
          /\ outcome' = << Conclude(op, serviceId,
                                    Rejected(<< "Unsupported AI service: ", serviceId >>)) >>
     ELSE LET call == [ op |-> op, serviceId |-> serviceId, prompt |-> text,
                        apiKey |-> apiKey, model |-> ServiceModel(serviceId, model),
                        image |-> image, phase |-> "posting" ] IN
          IF serviceId = "google" /\ image # <<>>
          THEN /\ requests' = <<>>
               /\ pendingCall' = << [ call EXCEPT !.phase = "reading" ] >>
               /\ outcome' = <<>>
          ELSE /\ requests' = << HttpRequest(serviceId, text, apiKey, call.model, image) >>
               /\ pendingCall' = << call >>
               /\ outcome' = <<>>
  /\ UNCHANGED otherThanAdapter

callAIService(serviceId, text, apiKey, model, image) ==
  Invoke("callAIService", serviceId, text, apiKey, model, image)

testConnection(serviceId, apiKey, model) ==
  Invoke("testConnection", serviceId, << "Hello" >>, apiKey, model, <<>>)

\* fileToBase64 resolves: callGoogle posts the request with the image
ImageRead ==
  /\ pendingCall # <<>>
  /\ pendingCall[1].phase = "reading"
  /\ requests' = Append(requests, HttpRequest(pendingCall[1].serviceId, pendingCall[1].prompt,
                                               pendingCall[1].apiKey, pendingCall[1].model,
                                               pendingCall[1].image))
  /\ pendingCall' = << [ pendingCall[1] EXCEPT !.phase = "posting" ] >>
  /\ UNCHANGED << outcome, invocations, otherThanAdapter >>

\* fileToBase64 rejects
ImageReadFails ==
  /\ pendingCall # <<>>
  /\ pendingCall[1].phase = "reading"
  /\ outcome' = << Conclude(pendingCall[1].op, pendingCall[1].serviceId,
                            Rejected(<< "Failed to process image file." >>)) >>
  /\ pendingCall' = <<>>
  /\ UNCHANGED << requests, invocations, otherThanAdapter >>

\* axios.post resolves with a 2xx response
HttpResponds(data) ==
  /\ pendingCall # <<>>
  /\ pendingCall[1].phase = "posting"
  /\ data \in Bodies(pendingCall[1].serviceId)
  /\ outcome' = << Conclude(pendingCall[1].op, pendingCall[1].serviceId,
                            AfterResponse(pendingCall[1].serviceId, data)) >>
  /\ pendingCall' = <<>>
  /\ UNCHANGED << requests, invocations, otherThanAdapter >>

\* axios.post rejects
HttpFails(error) ==
  /\ pendingCall # <<>>
  /\ pendingCall[1].phase = "posting"
  /\ outcome' = << Conclude(pendingCall[1].op, pendingCall[1].serviceId,
                            AfterError(pendingCall[1].serviceId, error)) >>
  /\ pendingCall' = <<>>
  /\ UNCHANGED << requests, invocations, otherThanAdapter >>

\* the arguments the adapter is invoked with
ApiKeys == { "sk-test" }
Images == { <<>>, << "photo.png" >> }

\* no page is mounted: the adapter is invoked by itself
AdapterInit ==
  /\ selectedOption = "build"
  /\ connections = InitialConnections
  /\ roleAssignments = [ r \in RoleIds |-> Undefined ]
  /\ workflowSteps = <<>>
  /\ currentStep = 0
  /\ userPrompt = <<>>
  /\ workflowStarted = FALSE
  /\ additionalInput = <<>>
  /\ showAddMore = FALSE
  /\ chains = EmptyBag
  /\ toast = NoToast
  /\ resets = 0
  /\ assigns = 0
  /\ MainPageUnmounted
  /\ AdapterIdle
  /\ AppStarted
  /\ SettingsPageMounted

AdapterNext ==
  \/ \E serviceId \in AdapterIds, text \in UserPrompts, apiKey \in ApiKeys,
        model \in Models, image \in Images :
       callAIService(serviceId, text, apiKey, model, image)
  \/ \E serviceId \in AdapterIds, apiKey \in ApiKeys, model \in Models :
       testConnection(serviceId, apiKey, model)
  \/ ImageRead
  \/ ImageReadFails
  \/ \E data \in ChatBodies \cup ClaudeBodies \cup GeminiBodies : HttpResponds(data)
  \/ \E error \in AxiosErrors : HttpFails(error)

AdapterSpec == AdapterInit /\ [][AdapterNext]_vars

----------------------------------------------------------------------------
(* AppProviders and the settings modal *)

\* the services whose API key input the user types into, and what is typed
KeyPlan == { "openai", "anthropic" }
KeyTexts == { "", "sk-new" }

otherThanApp == << selectedOption, roleAssignments, workflowSteps, currentStep,
                   userPrompt, workflowStarted, additionalInput, showAddMore, chains,
                   resets, assigns, mainPageVars, adapterVars >>

\* connection?.status === 'connected'
isConnected(serviceId) ==
  connections[serviceId] # <<>> /\ connections[serviceId][1].status = "connected"

\* an update that builds the mapping from the new entry alone
setConnection_OnlyEntry(conns, serviceId, connection) ==
  [ id \in ServiceIds |-> IF id = serviceId THEN << connection >> ELSE <<>> ]

\* setConnections(prev => ({ ...prev, [serviceId]: connection }))
setConnection(conns, serviceId, connection) ==
  [ conns EXCEPT ![serviceId] = << connection >> ]

\* setConnections(prev => { delete newConnections[serviceId] ... })
removeConnection(conns, serviceId) ==
  [ conns EXCEPT ![serviceId] = <<>> ]

\* the input of a service that is not connected changes; it is disabled while the
\* connection of the service is tested
handleApiKeyChange(serviceId, apiKey) ==
  /\ serviceId \in KeyPlan
  /\ ~isConnected(serviceId)
  /\ testingConnection # << serviceId >>
  /\ apiKey # apiKeys[serviceId]
  /\ apiKeys' = [ apiKeys EXCEPT ![serviceId] = apiKey ]
  /\ toast' = NoToast
  /\ UNCHANGED << connections, theme, storage, testingConnection, tests, reloadTimer,
                  otherThanApp, pageVars >>

\* testConnection of the modal, up to its await; the Connect button is rendered
\* disabled while the key is blank, the handler rejects such a call by itself
SettingsModal_testConnection(serviceId) ==
  /\ ~isConnected(serviceId)
  /\ testingConnection # << serviceId >>
  /\ IF apiKeys[serviceId] = ""
     THEN /\ toast' = << "Please enter an API key first" >>
          /\ UNCHANGED << testingConnection, tests >>
     ELSE /\ testingConnection' = << serviceId >>
          /\ tests' = tests \cup { [ serviceId |-> serviceId, apiKey |-> apiKeys[serviceId] ] }
          /\ toast' = NoToast
  /\ UNCHANGED << connections, theme, storage, apiKeys, reloadTimer, otherThanApp, pageVars >>

\* aiServiceManager.testConnection returns isValid: the rest of the modal's
\* testConnection runs, and the persistence effect of the connections after it
TestReturns(t, isValid) ==
  /\ t \in tests
  /\ tests' = tests \ { t }
  /\ testingConnection' = <<>>
  /\ IF isValid
     THEN /\ connections' = setConnection(connections, t.serviceId,
                               [ status |-> "connected", apiKey |-> t.apiKey, model |-> <<>> ])
          /\ toast' = << "Successfully connected to ", ServiceName(t.serviceId), "!" >>
          /\ apiKeys' = [ apiKeys EXCEPT ![t.serviceId] = "" ]
     ELSE /\ connections' = setConnection(connections, t.serviceId,
                               [ status |-> "error", apiKey |-> "", model |-> <<>> ])
          /\ toast' = << "Connection failed: ", "Connection test failed" >>
          /\ UNCHANGED apiKeys
  /\ storage' = [ storage EXCEPT !.connections = << Stringify(connections') >> ]
  /\ UNCHANGED << theme, reloadTimer, otherThanApp, pageVars >>

disconnect(serviceId) ==
  /\ isConnected(serviceId)
  /\ connections' = removeConnection(connections, serviceId)
  /\ storage' = [ storage EXCEPT !.connections = << Stringify(connections') >> ]
  /\ toast' = << "Disconnected from ", ServiceName(serviceId) >>
  /\ UNCHANGED << theme, apiKeys, testingConnection, tests, reloadTimer, otherThanApp, pageVars >>

\* a theme button is clicked; the persistence effect of the theme runs when the
\* theme has changed
setTheme(t) ==
  /\ theme' = t
  /\ storage' = IF t # theme THEN [ storage EXCEPT !.theme = << t >> ] ELSE storage
  /\ toast' = NoToast
  /\ UNCHANGED << connections, apiKeys, testingConnection, tests, reloadTimer,
                  otherThanApp, pageVars >>

\* handleClearHistory, confirmed
clearHistory ==
  /\ storage' = [ storage EXCEPT !.history = <<>> ]
  /\ toast' = << "Response history cleared!" >>
  /\ UNCHANGED << connections, theme, apiKeys, testingConnection, tests, reloadTimer,
                  otherThanApp, pageVars >>

\* handleReset, confirmed: every 'bunny-' key is removed and the reload is scheduled
resetAllSettings ==
  /\ storage' = [ theme |-> <<>>, connections |-> <<>>, history |-> <<>> ]
  /\ toast' = << "All settings have been reset." >>
  /\ reloadTimer' = TRUE
  /\ UNCHANGED << connections, theme, apiKeys, testingConnection, tests,
                  otherThanApp, pageVars >>

\* the page is loaded again: the state is initialized from the store, what was in
\* flight is gone, and the persistence effects run once
reload ==
  /\ connections' = LoadConnections(storage)
  /\ theme' = LoadTheme(storage)
  /\ storage' = Persist(storage, theme', connections')
  /\ apiKeys' = [ id \in ServiceIds |-> "" ]
  /\ testingConnection' = <<>>
  /\ tests' = {}
  /\ reloadTimer' = FALSE
  /\ pageApiKeys' = [ id \in ServiceIds |-> "" ]
  /\ modelNames' = [ id \in ServiceIds |-> "" ]
  /\ loading' = [ id \in ServiceIds |-> FALSE ]
  /\ connects' = {}
  /\ toast' = NoToast
  /\ UNCHANGED otherThanApp

\* setTimeout(() => window.location.reload(), 1000) fires
ReloadTimerFires == reloadTimer /\ reload

\* the user closes the page and opens it again
ReopenApp == ~reloadTimer /\ reload

\* the settings modal is open over a page that is left alone
SettingsInit ==
  /\ selectedOption = "build"
  /\ connections = InitialConnections
  /\ roleAssignments = [ r \in RoleIds |-> Undefined ]
  /\ workflowSteps = <<>>
  /\ currentStep = 0
  /\ userPrompt = <<>>
  /\ workflowStarted = FALSE
  /\ additionalInput = <<>>
  /\ showAddMore = FALSE
  /\ chains = EmptyBag
  /\ toast = NoToast
  /\ resets = 0
  /\ assigns = 0
  /\ MainPageUnmounted
  /\ AdapterIdle
  /\ AppStarted
  /\ SettingsPageMounted

SettingsNext ==
  \/ \E serviceId \in ServiceIds, apiKey \in KeyTexts : handleApiKeyChange(serviceId, apiKey)
  \/ \E serviceId \in ServiceIds : SettingsModal_testConnection(serviceId)
  \/ \E t \in tests, isValid \in BOOLEAN : TestReturns(t, isValid)
  \/ \E serviceId \in ServiceIds : disconnect(serviceId)
  \/ \E t \in { "light", "dark" } : setTheme(t)
  \/ clearHistory
  \/ resetAllSettings
  \/ ReloadTimerFires
  \/ ReopenApp

SettingsSpec == SettingsInit /\ [][SettingsNext]_vars

----------------------------------------------------------------------------
(* SettingsPage *)

\* the services whose inputs the user types into on the page, and what is typed: a
\* key may be empty or hold nothing but a blank
PagePlan == { "openai", "google" }
ModelPlan == { "google" }
PageKeyTexts == { "", " ", "sk-page" }
ModelTexts == { "", "custom-model" }

\* the API key input of a card changes; it is disabled while the service is connected
SettingsPage_handleApiKeyChange(serviceId, key) ==
  /\ serviceId \in PagePlan
  /\ ~isConnected(serviceId)
  /\ key # pageApiKeys[serviceId]
  /\ pageApiKeys' = [ pageApiKeys EXCEPT ![serviceId] = key ]
  /\ toast' = NoToast
  /\ UNCHANGED << connections, storage, modelNames, loading, connects, otherThanApp, theme, apiKeys, testingConnection, tests, reloadTimer >>

\* the model input of a card changes; it is disabled while the service is connected
handleModelNameChange(serviceId, name) ==
  /\ serviceId \in ModelPlan
  /\ ~isConnected(serviceId)
  /\ name # modelNames[serviceId]
  /\ modelNames' = [ modelNames EXCEPT ![serviceId] = name ]
  /\ toast' = NoToast
  /\ UNCHANGED << connections, storage, pageApiKeys, loading, connects, otherThanApp, theme, apiKeys, testingConnection, tests, reloadTimer >>

\* a handleConnect that tests whatever the input holds
handleConnect_NoKeyCheck(serviceId) ==
  /\ ~isConnected(serviceId)
  /\ ~loading[serviceId]
  /\ loading' = [ loading EXCEPT ![serviceId] = TRUE ]
  /\ connects' = connects \cup
       { [ serviceId |-> serviceId,
           apiKey    |-> pageApiKeys[serviceId],
           model     |-> IF modelNames[serviceId] # "" THEN modelNames[serviceId]
                         ELSE DEFAULT_MODELS[serviceId] ] }
  /\ toast' = NoToast
  /\ UNCHANGED << connections, storage, pageApiKeys, modelNames, otherThanApp, theme, apiKeys, testingConnection, tests, reloadTimer >>

\* handleConnect up to its await; the Connect button is rendered while the service is
\* not connected and is disabled while loading[serviceId]
handleConnect(serviceId) ==
  /\ ~isConnected(serviceId)
  /\ ~loading[serviceId]
  /\ IF pageApiKeys[serviceId] = ""
     THEN /\ toast' = << "Please enter an API key." >>
          /\ UNCHANGED << loading, connects >>
     ELSE /\ loading' = [ loading EXCEPT ![serviceId] = TRUE ]
          /\ connects' = connects \cup
               { [ serviceId |-> serviceId,
                   apiKey    |-> pageApiKeys[serviceId],
                   model     |-> IF modelNames[serviceId] # "" THEN modelNames[serviceId]
                                 ELSE DEFAULT_MODELS[serviceId] ] }
          /\ toast' = NoToast
  /\ UNCHANGED << connections, storage, pageApiKeys, modelNames, otherThanApp, theme, apiKeys, testingConnection, tests, reloadTimer >>

\* aiServiceManager.testConnection returns: the rest of handleConnect runs, and the
\* persistence effect of the connections after it
ConnectReturns(t, connected) ==
  /\ t \in connects
  /\ connects' = connects \ { t }
  /\ loading' = [ loading EXCEPT ![t.serviceId] = FALSE ]
  /\ IF connected
     THEN /\ connections' = setConnection(connections, t.serviceId,
                               [ status |-> "connected", apiKey |-> t.apiKey,
                                 model |-> << t.model >> ])
          /\ toast' = << ServiceName(t.serviceId), " connected!" >>
     ELSE /\ connections' = setConnection(connections, t.serviceId,
                               [ status |-> "error", apiKey |-> "", model |-> <<>> ])
          /\ toast' = << "Failed to connect to ", ServiceName(t.serviceId),
                         ". Check API key and model name." >>
  /\ storage' = [ storage EXCEPT !.connections = << Stringify(connections') >> ]
  /\ UNCHANGED << pageApiKeys, modelNames, otherThanApp, theme, apiKeys, testingConnection, tests, reloadTimer >>

\* the Disconnect button of a connected card is clicked
handleDisconnect(serviceId) ==
  /\ isConnected(serviceId)
  /\ connections' = removeConnection(connections, serviceId)
  /\ storage' = [ storage EXCEPT !.connections = << Stringify(connections') >> ]
  /\ pageApiKeys' = [ pageApiKeys EXCEPT ![serviceId] = "" ]
  /\ modelNames' = [ modelNames EXCEPT ![serviceId] = "" ]
  /\ toast' = << ServiceName(serviceId), " disconnected." >>
  /\ UNCHANGED << loading, connects, otherThanApp, theme, apiKeys, testingConnection, tests, reloadTimer >>

\* the application opened for the first time: nothing is stored
ConnectInit ==
  /\ selectedOption = "build"
  /\ connections = [ id \in ServiceIds |-> <<>> ]
  /\ roleAssignments = [ r \in RoleIds |-> Undefined ]
  /\ workflowSteps = <<>>
  /\ currentStep = 0
  /\ userPrompt = <<>>
  /\ workflowStarted = FALSE
  /\ additionalInput = <<>>
  /\ showAddMore = FALSE
  /\ chains = EmptyBag
  /\ toast = NoToast
  /\ resets = 0
  /\ assigns = 0
  /\ MainPageUnmounted
  /\ AdapterIdle
  /\ theme = "dark"
  /\ storage = [ theme       |-> << "dark" >>,
                 connections |-> << Stringify(connections) >>,
                 history     |-> <<>> ]
  /\ apiKeys = [ id \in ServiceIds |-> "" ]
  /\ testingConnection = <<>>
  /\ tests = {}
  /\ reloadTimer = FALSE
  /\ SettingsPageMounted

\* connect attempts and disconnects, through the settings page and through the
\* settings modal, and the page loaded again
ConnectNext ==
  \/ \E serviceId \in ServiceIds, key \in PageKeyTexts :
       SettingsPage_handleApiKeyChange(serviceId, key)
  \/ \E serviceId \in ServiceIds, name \in ModelTexts : handleModelNameChange(serviceId, name)
  \/ \E serviceId \in PagePlan : handleConnect(serviceId)
  \/ \E t \in connects, connected \in BOOLEAN : ConnectReturns(t, connected)
  \/ \E serviceId \in ServiceIds : handleDisconnect(serviceId)
  \/ \E serviceId \in ServiceIds, apiKey \in KeyTexts : handleApiKeyChange(serviceId, apiKey)
  \/ \E serviceId \in KeyPlan : SettingsModal_testConnection(serviceId)
  \/ \E t \in tests, isValid \in BOOLEAN : TestReturns(t, isValid)
  \/ \E serviceId \in ServiceIds : disconnect(serviceId)
  \/ ReopenApp

ConnectSpec == ConnectInit /\ [][ConnectNext]_vars

----------------------------------------------------------------------------

(* Vocabulary of the properties *)

\* the 0-based indices of the stages, and of the last one
StageIndices == 0..(Len(RoleKeys) - 1)
LastIndex == Len(RoleKeys) - 1

Stage(i) == workflowSteps[i + 1]

ProcessingStages == { i \in StageIndices : Stage(i).status = "processing" }

\* the roles that hold a service id in an assignment map
RolesWithProvider(assignments) == { r \in RoleIds : assignments[r] \in ServiceIds }

\* a text that is empty once the blanks at its ends are removed
BlankText(text) == \A i \in DOMAIN text : text[i] = Blank

\* the role of a stage holds a provider with a stored credential
HasProvider(assignments, conns, i) ==
  /\ assignments[RoleKeys[i + 1]] \in ServiceIds
  /\ conns[assignments[RoleKeys[i + 1]]] # <<>>
  /\ conns[assignments[RoleKeys[i + 1]]][1].apiKey # ""

\* a call for stage i is issued by this step
CallIssued(i) ==
  \E c \in BagToSet(chains') :
    /\ c.phase = "awaiting"
    /\ c.stepIndex = i
    /\ CopiesIn(c, chains') > CopiesIn(c, chains)

\* runStage(index, inputPrompt) invoked from the current render
runStage(index, inputPrompt) ==
  /\ processStep(index, inputPrompt, roleAssignments, connections, chains)
  /\ UNCHANGED << selectedOption, connections, roleAssignments, userPrompt, workflowStarted,
                  additionalInput, showAddMore, resets, assigns >>

----------------------------------------------------------------------------
(* C1 *)

\* C1: in every template, whenever the provider call of stage 0 succeeds (first run
\* or re-run through handleAddMore) stage 0 takes status 'user_input', and stage 0 is
\* never 'completed'.
C1_Stage0SuccessAwaitsDecision ==
  /\ [](Stage(0).status # "completed")
  /\ [][ \A c \in BagToSet(chains), raw \in RawTexts :
           (c.stepIndex = 0 /\ ProviderResponds(c, raw))
             => workflowSteps'[1].status = "user_input" ]_vars

\* a re-run of stage 0 through handleAddMore has succeeded, in the last template
C1_Witness ==
  /\ selectedOption = "ideas"
  /\ Stage(0).status = "user_input"
  /\ Refinements(Stage(0).prompt) = 1
  /\ Stage(0).response # <<>>
  /\ chains = EmptyBag

----------------------------------------------------------------------------
(* C2 *)

\* C2: in every reachable state at most one stage has status 'processing'.
C2_AtMostOneProcessing == Cardinality(ProcessingStages) <= 1

----------------------------------------------------------------------------
(* C3 *)

\* C3: a stage i+1 enters 'processing' only while stage i holds an output, and
\* stage 1 enters 'processing' only by handlePassToNext.
C3_NextStageNeedsOutput ==
  [][ \A i \in StageIndices \ {0} :
        (Stage(i).status # "processing" /\ workflowSteps'[i + 1].status = "processing")
          => /\ Stage(i - 1).response # <<>>
             /\ (i = 1 => handlePassToNext) ]_vars

----------------------------------------------------------------------------
(* C4 *)

\* C4: startWorkflow invoked while fewer than two roles hold a service, or while the
\* prompt is blank, leaves the started flag false, every stage as it is, and issues
\* no provider call; an un-assigned ('') role does not count.
C4_InvalidStartRejected ==
  [][ ( /\ startWorkflow
        /\ \/ Cardinality(RolesWithProvider(roleAssignments)) < 2
           \/ BlankText(userPrompt) )
        => /\ workflowStarted' = FALSE
           /\ workflowSteps' = workflowSteps
           /\ currentStep' = currentStep
           /\ chains' = chains ]_vars

\* a start was rejected although two roles have an entry: one of them is un-assigned
C4_Witness ==
  /\ toast = << "Please assign at least 2 AIs and enter a task description!" >>
  /\ ~workflowStarted
  /\ ~BlankText(userPrompt)
  /\ Cardinality({ r \in RoleIds : roleAssignments[r] # Undefined }) >= 2
  /\ \E r \in RoleIds : roleAssignments[r] = ""

----------------------------------------------------------------------------
(* C5 *)

\* C5: whenever startWorkflow passes its validation (two or more roles assigned, a
\* prompt that is not blank) the run is started and stage 0 is 'processing' with the
\* raw user prompt as its prompt.
C5_ValidStartRunsStage0 ==
  [][ ( /\ startWorkflow
        /\ Cardinality(RolesWithProvider(roleAssignments)) >= 2
        /\ ~BlankText(userPrompt) )
        => /\ workflowStarted' = TRUE
           /\ workflowSteps'[1].status = "processing"
           /\ workflowSteps'[1].prompt = userPrompt ]_vars

----------------------------------------------------------------------------
(* C6 *)

\* C6: when the provider call of a stage fails, that stage goes back to 'pending',
\* the call is gone and none is issued or scheduled in its place, and no other
\* stage changes.
C6_FailureRevertsToPending ==
  [][ \A c \in BagToSet(chains), message \in ProviderErrors :
        ProviderFails(c, message)
          => /\ workflowSteps'[c.stepIndex + 1].status = "pending"
             /\ chains' = chains (-) SetToBag({c})
             /\ \A i \in StageIndices \ {c.stepIndex} : workflowSteps'[i + 1] = Stage(i) ]_vars

\* the call of a stage after stage 0 has failed and nothing is left running
C6_Witness ==
  /\ toast # <<>> /\ toast[1] = "Error in "
  /\ \E i \in StageIndices \ {0} :
       /\ Stage(i).roleName = toast[2]
       /\ Stage(i).status = "pending"
       /\ Stage(i).prompt # <<>>
  /\ chains = EmptyBag

----------------------------------------------------------------------------
(* C7 *)

\* the user can re-submit stage i from this state: stage 0 through the footer's
\* "Refine & Rerun", a later stage through "pass to next role"
Resubmittable(i) ==
  \/ i = 0 /\ FooterShown
  \/ ENABLED (handlePassToNext /\ workflowSteps'[i + 1].status = "processing")
  \/ ENABLED (startWorkflow /\ workflowSteps'[i + 1].status = "processing")

\* C7: in the state a failed provider call leaves, some user operation other than
\* reset re-submits the stage that failed.
C7_FailedStageResumable ==
  (toast # <<>> /\ toast[1] = "Error in ")
    => \E i \in StageIndices : Stage(i).roleName = toast[2] /\ Resubmittable(i)

----------------------------------------------------------------------------
(* C8 *)

\* C8: in every reachable state, runStage for an index that has no stage, or for a
\* stage whose role holds no service, cannot issue a provider call nor change any
\* stage or the current-stage index.
C8_RunStageRejectsLeaveState ==
  \A index \in 0..(Len(RoleKeys) + 1), inputPrompt \in UserPrompts :
    ( \/ index \notin StageIndices
      \/ roleAssignments[RoleKeys[index + 1]] \notin ServiceIds )
      => ~ENABLED ( /\ runStage(index, inputPrompt)
                    /\ \/ workflowSteps' # workflowSteps
                       \/ currentStep' # currentStep
                       \/ chains' # chains )

\* runStage was invoked for stage 0 of a started run whose role A holds no service
C8_Witness ==
  /\ toast = << "No AI assigned to role ", "A" >>
  /\ workflowStarted
  /\ \A i \in StageIndices : Stage(i).status = "pending"
  /\ chains = EmptyBag

----------------------------------------------------------------------------
(* C9 *)

\* C9: no provider call is issued for a stage whose role holds no service in the
\* role assignments, and a timer that reaches such a stage leaves it as it is.
C9_NoCallForUnassignedRole ==
  [][ \A i \in StageIndices :
        roleAssignments[RoleKeys[i + 1]] \notin ServiceIds
          => /\ ~CallIssued(i)
             /\ (workflowSteps'[i + 1].status = "processing" => Stage(i).status = "processing") ]_vars

----------------------------------------------------------------------------
(* C10 *)

\* C10 (amended): a successful call of a stage i > 0 sets it 'completed'; if i is not
\* the last stage a timer is scheduled that carries the output, and when it fires
\* stage i+1 is started with a prompt holding that output if its role holds a
\* provider in the assignments the chain was started with, and otherwise the chain
\* stops; after the last stage nothing is scheduled.
C10_LaterStageCompletesAndAdvances ==
  [][ /\ \A c \in BagToSet(chains), raw \in RawTexts :
           (c.stepIndex > 0 /\ ProviderResponds(c, raw))
             => /\ workflowSteps'[c.stepIndex + 1].status = "completed"
                /\ workflowSteps'[c.stepIndex + 1].response # <<>>
                /\ IF c.stepIndex < LastIndex
                   THEN /\ BagCardinality(chains') = BagCardinality(chains)
                        /\ \E t \in BagToSet(chains') :
                             /\ t.phase = "timer"
                             /\ t.stepIndex = c.stepIndex
                             /\ << t.content >> = workflowSteps'[c.stepIndex + 1].response
                             /\ CopiesIn(t, chains') = CopiesIn(t, chains) + 1
                   ELSE /\ chains' = chains (-) SetToBag({c})
      /\ \A c \in BagToSet(chains) :
           TimerFires(c)
             => IF HasProvider(c.roleAssignments, c.connections, c.stepIndex + 1)
                THEN /\ workflowSteps'[c.stepIndex + 2].status = "processing"
                     /\ Contains(workflowSteps'[c.stepIndex + 2].prompt, c.content)
                     /\ Contains(workflowSteps'[c.stepIndex + 2].prompt,
                          << ROLE_DEFINITIONS[selectedOption][RoleKeys[c.stepIndex + 2]].name >>)
                     /\ CallIssued(c.stepIndex + 1)
                     /\ BagCardinality(chains') = BagCardinality(chains)
                ELSE /\ workflowSteps' = workflowSteps
                     /\ chains' = chains (-) SetToBag({c}) ]_vars

\* C10 as stated: when the timer of a completed stage i fires, stage i+1 is started.
C10_TimerAlwaysStartsNextStage ==
  [][ \A c \in BagToSet(chains) :
        TimerFires(c) => workflowSteps'[c.stepIndex + 2].status = "processing" ]_vars

\* the chain ran through to the last stage, which completed
C10_Witness ==
  /\ toast = << "Workflow completed successfully!" >>
  /\ \A i \in StageIndices \ {0} : Stage(i).status = "completed"
  /\ Contains(Stage(LastIndex).prompt, Stage(LastIndex - 1).response[1])
  /\ chains = EmptyBag

----------------------------------------------------------------------------
(* C11 *)

\* stage i is put to 'processing' by this step
Started(i) ==
  /\ workflowSteps'[i + 1].status = "processing"
  /\ \/ Stage(i).status # "processing"
     \/ CallIssued(i)

\* C11: handlePassToNext invoked at the approval gate starts stage 1 with a prompt
\* holding the output of stage 0, starts no other stage, and stage 1 was not started
\* before.
C11_AdvanceStartsStage1Only ==
  [][ handlePassToNext
        => /\ Started(1)
           /\ Stage(0).response # <<>>
           /\ Contains(workflowSteps'[2].prompt, Stage(0).response[1])
           /\ \A i \in StageIndices \ {1} : ~Started(i)
           /\ Stage(1).status = "pending" /\ Stage(1).prompt = <<>> ]_vars

----------------------------------------------------------------------------
(* C12 *)

\* C12: the footer that offers handleAddMore and handlePassToNext is rendered only
\* while stage 0 is 'user_input', and a step of either handler that starts a stage
\* is taken only in such a state.
C12_GateOnlyWhileAwaitingDecision ==
  /\ [](FooterShown => Stage(0).status = "user_input")
  /\ [][ ((handleAddMore \/ handlePassToNext) /\ \E i \in StageIndices : Started(i))
           => Stage(0).status = "user_input" ]_vars

\* showAddMore is still set and stage 0 holds an output, but stage 0 went back to
\* 'pending': the footer is not rendered
C12_Witness ==
  /\ ActiveView
  /\ showAddMore
  /\ Stage(0).status = "pending"
  /\ Stage(0).response # <<>>
  /\ ~FooterShown

\* the first n refinements of the plan as they are appended to a prompt
RECURSIVE RefinedBy(_)
RefinedBy(n) ==
  IF n = 0 THEN <<>>
  ELSE RefinedBy(n - 1) \o << AdditionalLabel >> \o RefinementPlan[n]

----------------------------------------------------------------------------
(* C13 *)

\* C13: a handleAddMore step with a text that is not blank re-runs stage 0 with the
\* prompt stage 0 had, followed by the 'Additional requirements' label and the text,
\* so that after n refinements the prompt is the user's prompt followed by the n
\* texts in the order of submission; and a successful call of stage 0 leaves the
\* new response, alone, as the output of stage 0.
C13_RefinementAppendsAndOverwrites ==
  /\ [][ (handleAddMore /\ ~BlankText(additionalInput))
           => /\ Stage(0).prompt # <<>>
              /\ Started(0)
              /\ workflowSteps'[1].prompt
                   = Stage(0).prompt \o << AdditionalLabel >> \o additionalInput
              /\ \E c \in BagToSet(chains') :
                   /\ CopiesIn(c, chains') > CopiesIn(c, chains)
                   /\ c.stepIndex = 0
                   /\ Contains(c.request.prompt, workflowSteps'[1].prompt) ]_vars
  /\ [][ \A c \in BagToSet(chains), raw \in RawTexts :
           (c.stepIndex = 0 /\ ProviderResponds(c, raw))
             => workflowSteps'[1].response = << NormalizeContent(raw) >> ]_vars
  /\ [](\A n \in 0..MaxRefine :
          (Stage(0).prompt # <<>> /\ Refinements(Stage(0).prompt) = n /\ n <= Len(RefinementPlan))
            => \E original \in UserPrompts :
                 /\ ~BlankText(original)
                 /\ Stage(0).prompt =
                      original \o RefinedBy(n))

\* two refinements were submitted and the second re-run has answered: the output
\* of stage 0 is that answer
C13_Witness ==
  /\ Refinements(Stage(0).prompt) = 2
  /\ Stage(0).prompt = userPrompt \o << AdditionalLabel >> \o RefinementPlan[1]
                                  \o << AdditionalLabel >> \o RefinementPlan[2]
  /\ Stage(0).status = "user_input"
  /\ Stage(0).response = << << "No response" >> >>
  /\ chains = EmptyBag

----------------------------------------------------------------------------
(* C14 *)

\* C14: a handleAddMore step taken with a text that is blank changes no stage,
\* leaves stage 0 'user_input', keeps the footer rendered with the text in it, and
\* issues no provider call.
C14_BlankRefinementRejected ==
  [][ (handleAddMore /\ BlankText(additionalInput))
        => /\ workflowSteps' = workflowSteps
           /\ Stage(0).status = "user_input"
           /\ currentStep' = currentStep
           /\ showAddMore' = showAddMore
           /\ additionalInput' = additionalInput
           /\ FooterShown'
           /\ chains' = chains ]_vars

\* a refinement holding only blanks was rejected after one refinement had run
C14_Witness ==
  /\ toast = << "Please enter additional requirements!" >>
  /\ additionalInput = << Blank >>
  /\ Refinements(Stage(0).prompt) = 1
  /\ Stage(0).status = "user_input"
  /\ FooterShown

----------------------------------------------------------------------------
(* C15 *)

\* what resetWorkflow sets, from any state
reset ==
  /\ workflowStarted' = FALSE
  /\ currentStep' = 0
  /\ userPrompt' = <<>>
  /\ additionalInput' = <<>>
  /\ showAddMore' = FALSE
  /\ roleAssignments' = [ r \in RoleIds |-> Undefined ]
  /\ workflowSteps' = InitialSteps
  /\ UNCHANGED << selectedOption, connections, chains, toast, resets, assigns, mainPageVars,
                  appVars >>

\* the state resetWorkflow leaves
ResetState ==
  /\ \A i \in StageIndices :
       Stage(i).status = "pending" /\ Stage(i).prompt = <<>> /\ Stage(i).response = <<>>
  /\ RolesWithProvider(roleAssignments) = {}
  /\ \A r \in RoleIds : roleAssignments[r] = Undefined
  /\ workflowStarted = FALSE
  /\ currentStep = 0

\* C15: every resetWorkflow step ends in a state where every stage is 'pending' with
\* no prompt and no output, no role is assigned, the run is not started and the
\* current step is 0; and a reset taken in such a state changes nothing.
C15_ResetClearsAndIsIdempotent ==
  /\ [][ resetWorkflow => ResetState' ]_vars
  /\ []( ResetState /\ userPrompt = <<>> /\ additionalInput = <<>> /\ ~showAddMore
           => ~ENABLED (reset /\ vars' # vars) )

\* a reset was taken while a provider call was in flight
C15_Witness ==
  /\ resets = 1
  /\ ResetState
  /\ userPrompt = <<>>
  /\ chains # EmptyBag

----------------------------------------------------------------------------
(* C16 *)

\* C16: resetWorkflow leaves every provider call in flight as it is, and a call
\* that answers while the run is reset and not started again writes its status and
\* its output into the stage of its index.
C16_CallSurvivesReset ==
  /\ [][ resetWorkflow => chains' = chains ]_vars
  /\ [][ \A c \in BagToSet(chains), raw \in RawTexts :
           (~workflowStarted /\ ProviderResponds(c, raw))
             => /\ workflowSteps'[c.stepIndex + 1].status = newStatus(c.stepIndex)
                /\ workflowSteps'[c.stepIndex + 1].response = << NormalizeContent(raw) >> ]_vars

\* after a reset and no new start, a stage is 'completed' and holds an output
C16_Witness ==
  /\ resets = 1
  /\ ~workflowStarted
  /\ \E i \in StageIndices \ {0} :
       Stage(i).status = "completed" /\ Stage(i).response # <<>> /\ Stage(i).prompt = <<>>

----------------------------------------------------------------------------
(* C19 *)

\* the role of stage i holds a service whose connection holds no apiKey
NoCredential(assignments, conns, i) ==
  /\ assignments[RoleKeys[i + 1]] \in ServiceIds
  /\ ~HasProvider(assignments, conns, i)

\* what a step that finds no apiKey for stage i does: it notifies, changes no stage
\* and no current step, and adds no call and no timer
StopsForCredential(assignments, i, left) ==
  /\ toast' = << "API key not found for ", assignments[RoleKeys[i + 1]] >>
  /\ workflowSteps' = workflowSteps
  /\ currentStep' = currentStep
  /\ chains' = left
  /\ ~CallIssued(i)

\* C19: a step that is to run a stage (the start, a refinement, the pass to the next
\* role, the timer of the stage before) whose role holds a service without a stored
\* apiKey issues no call, notifies the failure, leaves every stage as it is and
\* schedules nothing.
C19_MissingCredentialStopsStage ==
  [][ /\ (startWorkflow /\ validateSetup /\ NoCredential(roleAssignments, connections, 0))
          => StopsForCredential(roleAssignments, 0, chains)
      /\ (handleAddMore /\ ~BlankText(additionalInput)
                        /\ NoCredential(roleAssignments, connections, 0))
          => StopsForCredential(roleAssignments, 0, chains)
      /\ (handlePassToNext /\ Stage(currentStep).response # <<>> /\ currentStep < LastIndex
                           /\ NoCredential(roleAssignments, connections, currentStep + 1))
          => StopsForCredential(roleAssignments, currentStep + 1, chains)
      /\ \A c \in BagToSet(chains) :
           (TimerFires(c) /\ NoCredential(c.roleAssignments, c.connections, c.stepIndex + 1))
             => StopsForCredential(c.roleAssignments, c.stepIndex + 1,
                                   chains (-) SetToBag({c})) ]_vars

\* the chain reached stage 2, whose service holds no apiKey, and stopped
C19_Witness ==
  /\ toast = << "API key not found for ", "google" >>
  /\ Stage(1).status = "completed"
  /\ Stage(2).status = "pending" /\ Stage(2).prompt = <<>>
  /\ chains = EmptyBag

----------------------------------------------------------------------------
(* C20 *)

\* the list holds one stage per role of the template, in the order of the roles
StageListIntact ==
  /\ Len(workflowSteps) = Len(RoleKeys)
  /\ DOMAIN ROLE_DEFINITIONS[selectedOption] = RoleIds
  /\ \A i \in 1..Len(RoleKeys) :
       /\ workflowSteps[i].id = RoleKeys[i]
       /\ workflowSteps[i].role = RoleKeys[i]
       /\ workflowSteps[i].roleName = ROLE_DEFINITIONS[selectedOption][RoleKeys[i]].name

\* C20: in every reachable state the stage list is exactly the roles A..E of the
\* template in role order, and resetWorkflow rebuilds that list with every stage
\* 'pending', without prompt and without output.
C20_StageListFixed ==
  /\ []StageListIntact
  /\ [][ resetWorkflow
           => \A i \in 1..Len(RoleKeys) :
                workflowSteps'[i] =
                  [ id |-> RoleKeys[i], role |-> RoleKeys[i],
                    roleName |-> ROLE_DEFINITIONS[selectedOption][RoleKeys[i]].name,
                    prompt |-> <<>>, response |-> <<>>, status |-> "pending" ] ]_vars

\* a run started after a reset went through a refinement and on to stage 1
C20_Witness ==
  /\ resets = 1
  /\ workflowStarted
  /\ Refinements(Stage(0).prompt) = 1
  /\ Stage(0).status = "user_input"
  /\ Stage(1).status = "completed"
  /\ StageListIntact

----------------------------------------------------------------------------
(* C17 *)

\* the services whose cell is loading
LoadingCells == { id \in ServiceIds : responses[id] # <<>> /\ responses[id][1].loading }

\* the services that have a call in flight
InFlight == { req.serviceId : req \in calls }

\* C17: isSubmitting holds exactly while a call of the fan-out is in flight (it is set
\* by the handleSubmit step that issues the calls and cleared by the step in which
\* the last of them settles, whatever the order), and when every call settles at
\* some time a set flag is cleared at some time.
C17_SubmittingUntilAllSettled ==
  /\ [](isSubmitting <=> calls # {})
  /\ [](InFlight = LoadingCells)
  /\ [][ (isSubmitting /\ ~isSubmitting') => (calls' = {} /\ LoadingCells' = {}) ]_vars
  /\ (isSubmitting ~> ~isSubmitting)

\* a fan-out to three services has settled and the flag is cleared
C17_Witness ==
  /\ ~isSubmitting
  /\ responses["openai"] # <<>> /\ responses["openai"][1].content = << "response text" >>
  /\ responses["groq"] # <<>> /\ responses["groq"][1].content = << "No response" >>
  /\ responses["google"] # <<>> /\ responses["google"][1].error # <<>>
  /\ calls = {}

----------------------------------------------------------------------------
(* C18 *)

\* a cell that is settled: it holds either a content and no error, or an error and
\* no content
SettledCell(cell) ==
  /\ ~cell.loading
  /\ (cell.error = <<>>) <=> (cell.content # <<>>)

\* C18: a failing call writes its error, an empty content and loading = false into
\* its own cell and a resolving call its content, without error, into its own; a
\* service without apiKey gets its error in the handleSubmit step; neither changes
\* the cell or the call of another service; while the submission runs a cell changes
\* only when its own call settles; and once all have settled every cell is settled.
C18_FailuresStayInTheirCell ==
  /\ [][ \A req \in calls, message \in ProviderErrors :
           CallFails(req, message)
             => /\ responses'[req.serviceId] =
                     << [ service |-> req.serviceId, content |-> <<>>, loading |-> FALSE,
                          error |-> << ErrorMessage(req.serviceId, message) >> ] >>
                /\ \A id \in ServiceIds \ { req.serviceId } : responses'[id] = responses[id]
                /\ calls' = calls \ { req } ]_vars
  /\ [][ \A req \in calls, raw \in RawTexts :
           CallSucceeds(req, raw)
             => /\ responses'[req.serviceId] =
                     << [ service |-> req.serviceId, content |-> NormalizeContent(raw),
                          loading |-> FALSE, error |-> <<>> ] >>
                /\ \A id \in ServiceIds \ { req.serviceId } : responses'[id] = responses[id]
                /\ calls' = calls \ { req } ]_vars
  /\ [][ (handleSubmit /\ responses' # responses)
           => \A id \in ServiceIds :
                /\ responses'[id] # <<>> <=> Includes(selectedServices, id)
                /\ (Includes(selectedServices, id) /\ NoApiKey(id))
                     => /\ responses'[id][1].error = << << "API key not found" >> >>
                        /\ SettledCell(responses'[id][1])
                        /\ id \notin InFlight'
                /\ (Includes(selectedServices, id) /\ ~NoApiKey(id))
                     => responses'[id][1].loading /\ id \in InFlight' ]_vars
  /\ [][ \A id \in ServiceIds :
           (isSubmitting /\ responses'[id] # responses[id]) => id \in InFlight \ InFlight' ]_vars
  /\ [](~isSubmitting
          => \A id \in ServiceIds : responses[id] # <<>> => SettledCell(responses[id][1]))

\* of three services one had no apiKey, one failed and one answered
C18_Witness ==
  /\ ~isSubmitting
  /\ responses["google"] # <<>>
  /\ responses["google"][1].error = << << "API key not found" >> >>
  /\ responses["openai"] # <<>>
  /\ responses["openai"][1].error # <<>> /\ responses["openai"][1].content = <<>>
  /\ responses["groq"] # <<>>
  /\ responses["groq"][1].error = <<>> /\ responses["groq"][1].content # <<>>

----------------------------------------------------------------------------
(* C21 *)

\* the provider calls this step issues
IssuedCalls ==
  { c \in BagToSet(chains') : c.phase = "awaiting" /\ CopiesIn(c, chains') > CopiesIn(c, chains) }

\* the role of stage i in the template the workflow was opened with
RoleOf(i) == ROLE_DEFINITIONS[selectedOption][RoleKeys[i + 1]]

\* C21: the prompt of every provider call issued for stage 0 holds the name and the
\* description of role A, the title of the template and the input prompt of stage 0
\* as it is (the user's prompt at a start, the combined prompt at a refinement); the
\* prompt of every call issued for a stage i > 0 holds the name and the description of
\* the role of stage i and the whole output of stage i-1 (the output the timer
\* carries, or the output of the current stage when the user passes it on).
C21_PromptHoldsRoleAndPreviousOutput ==
  [][ \A c \in IssuedCalls :
        /\ Contains(c.request.prompt, << RoleOf(c.stepIndex).name >>)
        /\ Contains(c.request.prompt, << RoleOf(c.stepIndex).description >>)
        /\ IF c.stepIndex = 0
           THEN /\ Contains(c.request.prompt, << Title(selectedOption) >>)
                /\ Contains(c.request.prompt, workflowSteps'[1].prompt)
                /\ workflowSteps'[1].prompt # <<>>
                /\ startWorkflow => workflowSteps'[1].prompt = userPrompt
                /\ handleAddMore => workflowSteps'[1].prompt = combinedPrompt
           ELSE /\ handlePassToNext
                     => /\ c.stepIndex = currentStep + 1
                        /\ Stage(currentStep).response # <<>>
                        /\ Contains(c.request.prompt, Stage(currentStep).response[1])
                /\ \A t \in BagToSet(chains) :
                     TimerFires(t)
                       => /\ c.stepIndex = t.stepIndex + 1
                          /\ t.content # <<>>
                          /\ Contains(c.request.prompt, t.content)
                /\ handlePassToNext \/ \E t \in BagToSet(chains) : TimerFires(t) ]_vars

\* a call of stage 2 is in flight whose prompt holds the output of stage 1 and the
\* name of the role of stage 2
C21_Witness ==
  \E c \in BagToSet(chains) :
    /\ c.phase = "awaiting"
    /\ c.stepIndex = 2
    /\ Stage(1).response # <<>>
    /\ Contains(c.request.prompt, Stage(1).response[1])
    /\ Contains(c.request.prompt, << RoleOf(2).name, ". Your role: ", RoleOf(2).description >>)

----------------------------------------------------------------------------
(* C29 *)

\* the provider calls in flight
CallsInFlight == { c \in BagToSet(chains) : c.phase = "awaiting" }

\* how many provider calls are in flight
InFlightCount == BagCardinality([ c \in CallsInFlight |-> CopiesIn(c, chains) ])

\* C29: as long as resetWorkflow was not invoked, at most one provider call is in
\* flight, and a stage i > 0 that is started was never started before: it is
\* 'pending' and holds neither a prompt nor an output.
C29_OneCallAndOneRunWithoutReset ==
  /\ [](resets = 0 => InFlightCount <= 1)
  /\ [][ resets' = 0
           => \A i \in StageIndices \ {0} :
                Started(i)
                  => /\ Stage(i).status = "pending"
                     /\ Stage(i).prompt = <<>>
                     /\ Stage(i).response = <<>> ]_vars

\* without a reset the run went through every stage, and the last call is in flight
C29_Witness ==
  /\ resets = 0
  /\ \A i \in 1..(LastIndex - 1) : Stage(i).status = "completed"
  /\ Stage(LastIndex).status = "processing"
  /\ InFlightCount = 1

----------------------------------------------------------------------------
(* C30 *)

\* C30: while the footer with "Refine & Rerun" and "pass to next role" is rendered no
\* stage is 'processing' and no timer of the chain is pending, and no stage after
\* stage 0 was started in this run (the user has not passed the gate yet).
C30_GateOnlyWhileIdle ==
  FooterShown
    => /\ ProcessingStages = {}
       /\ \A c \in BagToSet(chains) : c.phase # "timer"
       /\ \A i \in StageIndices \ {0} : Stage(i).status = "pending" /\ Stage(i).prompt = <<>>

----------------------------------------------------------------------------
(* C28 *)

\* an execution of processStep that was started before the reset
StartedBeforeReset(c) == resets > 0 /\ c.roleAssignments # roleAssignments

\* C28: resetWorkflow leaves the calls and the timers of the chain as they are; after
\* it, the timer of a stage i > 0 that fires starts stage i+1 with the service the
\* role of stage i+1 held in the role assignments the chain was started with (if it
\* held one with a credential), whatever the role assignments are now, and the answer
\* of a call of the chain writes its status and its output into the current stage
\* list.
C28_ChainSurvivesReset ==
  [][ /\ resetWorkflow => chains' = chains
      /\ \A c \in BagToSet(chains) :
           (StartedBeforeReset(c) /\ TimerFires(c)
              /\ HasProvider(c.roleAssignments, c.connections, c.stepIndex + 1))
             => /\ workflowSteps'[c.stepIndex + 2].status = "processing"
                /\ \E n \in IssuedCalls :
                     /\ n.stepIndex = c.stepIndex + 1
                     /\ n.request.serviceId = c.roleAssignments[RoleKeys[c.stepIndex + 2]]
                     /\ n.roleAssignments = c.roleAssignments
                     /\ Contains(n.request.prompt, c.content)
      /\ \A c \in BagToSet(chains), raw \in RawTexts :
           (StartedBeforeReset(c) /\ c.stepIndex > 0 /\ ProviderResponds(c, raw))
             => /\ workflowSteps'[c.stepIndex + 1].status = "completed"
                /\ workflowSteps'[c.stepIndex + 1].response = << NormalizeContent(raw) >> ]_vars

\* the run was reset while the call of stage 1 was in flight and was not started
\* again: stage 2 was started after the reset and has completed
C28_Witness ==
  /\ resets = 1
  /\ ~workflowStarted
  /\ \A r \in RoleIds : roleAssignments[r] = Undefined
  /\ Stage(0).status = "pending" /\ Stage(0).prompt = <<>>
  /\ Stage(1).status = "completed" /\ Stage(1).prompt = <<>>
  /\ Stage(2).status = "completed" /\ Stage(2).prompt # <<>> /\ Stage(2).response # <<>>

----------------------------------------------------------------------------
(* C27 *)

\* every role holds a service with a stored credential
FullTeam == \A i \in StageIndices : HasProvider(roleAssignments, connections, i)

Done == << "Workflow completed successfully!" >>

\* C27: when every provider call succeeds and the workflow is not reset, a run with
\* all five roles assigned to services with a credential that was started and passed
\* on to stage 1 reaches a state where the last stage is 'completed'; a stage i > 0 is
\* started only once, after stage i-1 holds its output and before any later stage
\* was started; and the completion notification is emitted only by the answer to
\* the call of the last stage, which is not emitted twice.
C27_FullTeamRunCompletes ==
  /\ (FullTeam /\ Stage(1).status = "processing")
        ~> (Stage(LastIndex).status = "completed" /\ toast = Done /\ chains = EmptyBag)
  /\ [][ \A i \in StageIndices \ {0} :
           Started(i)
             => /\ Stage(i).status = "pending" /\ Stage(i).prompt = <<>>
                /\ Stage(i - 1).response # <<>>
                /\ Stage(i - 1).status = IF i = 1 THEN "user_input" ELSE "completed"
                /\ \A j \in StageIndices : j > i => Stage(j).prompt = <<>> ]_vars
  /\ [][ toast' = Done
           => /\ toast # Done
              /\ Stage(LastIndex).status = "processing"
              /\ workflowSteps'[LastIndex + 1].status = "completed" ]_vars

\* the run of a full team has completed, after one refinement of stage 0
C27_Witness ==
  /\ FullTeam
  /\ toast = Done
  /\ Refinements(Stage(0).prompt) = 1
  /\ \A i \in StageIndices \ {0} : Stage(i).status = "completed" /\ Stage(i).response # <<>>
  /\ chains = EmptyBag

----------------------------------------------------------------------------
(* C22 *)

\* C22: a testConnection invokes callAIService once and posts at most one request;
\* it always settles resolved, never rejected; it returns true exactly when its
\* callAIService promise resolved, and false when the provider answered with an
\* error, when the transport failed, when the response could not be read, and when
\* the service id is not supported (for which no request is posted).
C22_TestConnectionReturnsWhetherCallSucceeded ==
  /\ []( (outcome # <<>> /\ outcome[1].op = "testConnection")
           => /\ outcome[1].kind = "resolved"
              /\ outcome[1].returned = << outcome[1].inner = "resolved" >>
              /\ invocations = 1
              /\ Len(requests) <= 1 )
  /\ [][ \A serviceId \in AdapterIds, apiKey \in ApiKeys, model \in Models :
           testConnection(serviceId, apiKey, model)
             => /\ invocations' = 1
                /\ IF serviceId \in ServiceIds
                   THEN Len(requests') = 1 /\ outcome' = <<>>
                   ELSE /\ requests' = <<>>
                        /\ outcome'[1].kind = "resolved"
                        /\ outcome'[1].returned = << FALSE >> ]_vars
  /\ [][ (pendingCall # <<>> /\ pendingCall[1].op = "testConnection")
           => /\ \A data \in Bodies(pendingCall[1].serviceId) :
                   HttpResponds(data)
                     => outcome'[1].returned
                          = << ~ResponseText(pendingCall[1].serviceId, data).threw >>
              /\ \A error \in AxiosErrors :
                   HttpFails(error) => outcome'[1].returned = << FALSE >>
              /\ (invocations' = invocations /\ requests' = requests) ]_vars

\* a connection test of a supported service has returned false after its one request
C22_Witness ==
  /\ outcome # <<>>
  /\ outcome[1].op = "testConnection"
  /\ outcome[1].serviceId = "openai"
  /\ outcome[1].returned = << FALSE >>
  /\ outcome[1].inner = "rejected"
  /\ Len(requests) = 1

----------------------------------------------------------------------------
(* C23 *)

\* the generated text a response carries, none when the text or anything on the way
\* to it is missing or empty
CarriedText(serviceId, data) ==
  CASE serviceId \in { "openai", "groq" } ->
         IF data.choices = <<>> THEN <<>>
         ELSE IF data.choices[1] = <<>> THEN <<>>
         ELSE IF data.choices[1][1].message = <<>> THEN <<>>
         ELSE Raw(data.choices[1][1].message[1].content)
    [] serviceId = "anthropic" ->
         IF data.content = <<>> THEN <<>>
         ELSE IF data.content[1] = <<>> THEN <<>>
         ELSE Raw(data.content[1][1].text)
    [] serviceId = "google" ->
         IF data.candidates = <<>> THEN <<>>
         ELSE IF data.candidates[1] = <<>> THEN <<>>
         ELSE IF data.candidates[1][1].content = <<>> THEN <<>>
         ELSE IF data.candidates[1][1].content[1].parts = <<>> THEN <<>>
         ELSE IF data.candidates[1][1].content[1].parts[1] = <<>> THEN <<>>
         ELSE Raw(data.candidates[1][1].content[1].parts[1][1].text)

\* C23: for each of the four services a callAIService whose request is answered with
\* a 2xx response resolves; its content is 'No response' when the response carries
\* no generated text and is that text otherwise, and is never empty.
C23_EmptyResponseGivesPlaceholder ==
  [][ (pendingCall # <<>> /\ pendingCall[1].op = "callAIService")
        => \A data \in Bodies(pendingCall[1].serviceId) :
             HttpResponds(data)
               => /\ outcome'[1].kind = "resolved"
                  /\ outcome'[1].content # <<>>
                  /\ outcome'[1].content =
                       IF CarriedText(pendingCall[1].serviceId, data) = <<>>
                       THEN << "No response" >>
                       ELSE CarriedText(pendingCall[1].serviceId, data) ]_vars

----------------------------------------------------------------------------
(* C24 *)

\* C24: callAIService for a supported service works with the caller's model when one
\* is given that is not empty and with DEFAULT_MODELS of the service otherwise, and
\* every request it posts carries that model; for an unsupported service id it
\* rejects with 'Unsupported AI service: <id>', posts no request and leaves nothing
\* pending.
C24_ModelDefaultAndUnsupportedId ==
  /\ [][ \A serviceId \in AdapterIds, text \in UserPrompts, apiKey \in ApiKeys,
           model \in Models, image \in Images :
           callAIService(serviceId, text, apiKey, model, image)
             => IF serviceId \in ServiceIds
                THEN /\ pendingCall'[1].model =
                          IF model = <<>> \/ model = << "" >>
                          THEN DEFAULT_MODELS[serviceId] ELSE model[1]
                     /\ \A i \in DOMAIN requests' : requests'[i].model = pendingCall'[1].model
                ELSE /\ requests' = <<>>
                     /\ pendingCall' = <<>>
                     /\ outcome'[1].kind = "rejected"
                     /\ outcome'[1].message = << "Unsupported AI service: ", serviceId >> ]_vars
  /\ []( pendingCall # <<>>
           => \A i \in DOMAIN requests : requests[i].model = pendingCall[1].model )
  /\ []( (outcome # <<>> /\ outcome[1].serviceId \notin ServiceIds) => requests = <<>> )

\* a call for an unsupported service id was rejected without a request
C24_Witness ==
  /\ outcome # <<>>
  /\ outcome[1].op = "callAIService"
  /\ outcome[1].serviceId \in UnsupportedIds
  /\ outcome[1].kind = "rejected"
  /\ requests = <<>>
  /\ pendingCall = <<>>

----------------------------------------------------------------------------
(* C25 *)

\* C25: whenever the store holds the connections, what JSON.parse reads from it is
\* the mapping in memory, and a page that is loaded again then starts with the
\* mapping the page before it ended with; the store holds no connections only
\* between resetAllSettings and the reload it schedules.
C25_ConnectionsRoundTrip ==
  /\ []( storage.connections # <<>> => Parse(storage.connections[1]) = connections )
  /\ []( storage.connections = <<>> => reloadTimer )
  /\ [][ ((ReopenApp \/ ReloadTimerFires) /\ storage.connections # <<>>)
           => connections' = connections ]_vars
  /\ [][ (\E t \in tests, isValid \in BOOLEAN : TestReturns(t, isValid))
           \/ (\E serviceId \in ServiceIds : disconnect(serviceId))
           => LoadConnections(storage') = connections' ]_vars

\* a service was connected with a new key and another disconnected, and the page
\* was loaded again
C25_Witness ==
  /\ toast = NoToast
  /\ tests = {}
  /\ apiKeys = [ id \in ServiceIds |-> "" ]
  /\ connections["anthropic"] # <<>>
  /\ connections["anthropic"][1] = [ status |-> "connected", apiKey |-> "sk-new", model |-> <<>> ]
  /\ connections["openai"] # <<>> /\ connections["openai"][1].status = "error"
  /\ connections["groq"] = <<>>
  /\ storage.connections # <<>>
  /\ LoadConnections(storage) = connections

----------------------------------------------------------------------------
(* C26 *)

\* C26: the page that is loaded by the reload resetAllSettings scheduled starts with
\* no connection, and the store holds no response history then.
C26_ResetAllLeavesNothing ==
  [][ ReloadTimerFires
        => /\ connections' = [ id \in ServiceIds |-> <<>> ]
           /\ storage'.history = <<>> ]_vars

----------------------------------------------------------------------------
(* C31 *)

\* C31: stage 0 is never 'completed'; in no state, not even one in which the last
\* stage is completed, are all stages 'completed'; and once the user has advanced,
\* stage 0 keeps status 'user_input' in every step of the run (a step other than
\* resetWorkflow, which ends the run).
C31_Stage0NeverCompleted ==
  /\ [](Stage(0).status # "completed")
  /\ [](~(\A i \in StageIndices : Stage(i).status = "completed"))
  /\ [][ (/\ workflowStarted /\ Stage(0).status = "user_input"
          /\ \E i \in StageIndices \ {0} : Stage(i).prompt # <<>>
          /\ resets' = resets)
           => workflowSteps'[1].status = "user_input" ]_vars

----------------------------------------------------------------------------
(* C32 *)

\* C32: in every reachable state a stage with status 'completed' or 'user_input' holds
\* a produced output that is not empty, and a stage with status 'processing' holds an
\* input prompt that is not empty.
C32_StatusImpliesOutputOrPrompt ==
  \A i \in StageIndices :
    /\ Stage(i).status \in { "completed", "user_input" }
         => Stage(i).response # <<>> /\ Stage(i).response[1] # <<>>
    /\ Stage(i).status = "processing" => Stage(i).prompt # <<>>

\* the provider of stage 1 answered with no text and stage 2 is running
C32_Witness ==
  /\ Stage(0).status = "user_input"
  /\ Stage(1).status = "completed"
  /\ Stage(1).response = << << "No response" >> >>
  /\ Stage(2).status = "processing"

----------------------------------------------------------------------------
(* C33 *)

\* C33: a failed provider call changes only the status of the stage it was issued
\* for: the input prompt of that stage and the output it holds from an earlier
\* successful run stay as they were, every other stage stays as it was, and so do the
\* role assignments and the started flag.
C33_FailureChangesOnlyStatus ==
  [][ \A c \in BagToSet(chains), message \in ProviderErrors :
        ProviderFails(c, message)
          => /\ workflowSteps' = [ workflowSteps EXCEPT ![c.stepIndex + 1].status = "pending" ]
             /\ workflowSteps'[c.stepIndex + 1].prompt = Stage(c.stepIndex).prompt
             /\ workflowSteps'[c.stepIndex + 1].response = Stage(c.stepIndex).response
             /\ roleAssignments' = roleAssignments
             /\ workflowStarted' = workflowStarted ]_vars

\* the re-run of stage 0 has failed: stage 0 is 'pending' and still holds the refined
\* prompt and the output of its first run
C33_Witness ==
  /\ workflowStarted
  /\ toast # <<>> /\ toast[1] = "Error in " /\ toast[2] = Stage(0).roleName
  /\ Stage(0).status = "pending"
  /\ Refinements(Stage(0).prompt) = 1
  /\ Stage(0).response # <<>>
  /\ chains = EmptyBag

----------------------------------------------------------------------------
(* C34 *)

\* what a failed connect attempt stores
ErrorEntry == << [ status |-> "error", apiKey |-> "", model |-> <<>> ] >>

\* C34: starting from an empty connection store, after any sequence of connect
\* attempts (succeeding or failing) and disconnects, on the settings page or in the
\* settings modal: every connection with status 'connected' holds a credential that
\* is not empty; a failed attempt stores status 'error' with no credential; and a
\* disconnect removes the entry of the provider, from the state and from the store.
C34_ConnectedHoldsCredential ==
  /\ [](\A id \in ServiceIds : isConnected(id) => connections[id][1].apiKey # "")
  /\ [][ /\ \A t \in connects : ConnectReturns(t, FALSE) => connections'[t.serviceId] = ErrorEntry
         /\ \A t \in tests : TestReturns(t, FALSE) => connections'[t.serviceId] = ErrorEntry
         /\ \A id \in ServiceIds :
              (handleDisconnect(id) \/ disconnect(id))
                => /\ connections'[id] = <<>>
                   /\ id \notin DOMAIN storage'.connections[1] ]_vars

\* a provider was connected on the page, the attempt of another failed, and a third,
\* connected in the modal, has just been disconnected
C34_Witness ==
  /\ toast = << "Disconnected from ", ServiceName("anthropic") >>
  /\ connections["anthropic"] = <<>>
  /\ connections["openai"] = ErrorEntry
  /\ isConnected("google")
  /\ connections["google"][1].model = << "custom-model" >>

----------------------------------------------------------------------------
(* C35 *)

\* C35: connection tests of different providers run concurrently and finish in any
\* order; each completion records the outcome of its own test in the entry of its own
\* provider, leaves the entry of every other provider as it was, and leaves the other
\* tests in flight, so that once all have finished every tested provider's entry
\* shows its own result.
C35_ConcurrentTestsKeepOwnOutcome ==
  [][ /\ \A t \in connects, connected \in BOOLEAN :
           ConnectReturns(t, connected)
             => /\ connections'[t.serviceId] = IF connected
                     THEN << [ status |-> "connected", apiKey |-> t.apiKey,
                               model |-> << t.model >> ] >>
                     ELSE ErrorEntry
                /\ \A id \in ServiceIds \ {t.serviceId} :
                     connections'[id] = connections[id] /\ loading'[id] = loading[id]
                /\ connects' = connects \ {t}
                /\ LoadConnections(storage') = connections'
      /\ \A t \in tests, isValid \in BOOLEAN :
           TestReturns(t, isValid)
             => /\ isValid => /\ isConnected(t.serviceId)'
                              /\ connections'[t.serviceId][1].apiKey = t.apiKey
                /\ ~isValid => connections'[t.serviceId] = ErrorEntry
                /\ \A id \in ServiceIds \ {t.serviceId} : connections'[id] = connections[id]
                /\ tests' = tests \ {t} /\ connects' = connects ]_vars

\* the test of one provider has just succeeded while the test of another, started on
\* the page before, is still running, and a third provider holds the result of its own
C35_Witness ==
  /\ toast = << ServiceName("google"), " connected!" >>
  /\ connections["google"] = << [ status |-> "connected", apiKey |-> "sk-page",
                                  model |-> << DEFAULT_MODELS["google"] >> ] >>
  /\ \E t \in connects : t.serviceId = "openai"
  /\ loading["openai"] /\ ~loading["google"]
  /\ connections["anthropic"] = ErrorEntry

----------------------------------------------------------------------------
(* C36 *)

\* C36: in compare mode a submit invoked while the calls of a fan-out are unsettled
\* changes nothing of the page, so the calls in flight are those of one fan-out (they
\* carry one prompt and one image), each has the loading cell that fan-out created,
\* and a cell changes only when a fan-out starts with none in flight or when a call in
\* flight settles into its own cell; a submit with no selected service, or with a
\* blank prompt and no image, issues no call and leaves the cells as they are.
C36_OneFanOutAtATime ==
  /\ [](isSubmitting <=> calls # {})
  /\ [](\A r1, r2 \in calls : r1.prompt = r2.prompt /\ r1.image = r2.image)
  /\ [](\A r \in calls : responses[r.serviceId] # <<>> /\ responses[r.serviceId][1].loading)
  /\ [][ (handleSubmit /\ isSubmitting) => UNCHANGED mainPageVars ]_vars
  /\ [][ (/\ handleSubmit
          /\ \/ Len(selectedServices) = 0
             \/ Len(Trim(prompt)) = 0 /\ selectedImage = <<>>)
           => calls' = calls /\ responses' = responses ]_vars
  /\ [][ responses' # responses
           => \/ calls = {} /\ ~isSubmitting
              \/ \E req \in calls :
                   /\ calls' = calls \ {req}
                   /\ \A id \in ServiceIds \ {req.serviceId} : responses'[id] = responses[id] ]_vars

\* a fan-out is unsettled, one of its cells already shows an error, and the user has
\* picked an image meanwhile: a submit passes the checks of selection and content and is stopped
\* by the flag alone
C36_Witness ==
  /\ isSubmitting
  /\ calls # {}
  /\ Len(selectedServices) > 0
  /\ selectedImage # <<>>
  /\ \E id \in ServiceIds :
       responses[id] # <<>> /\ ~responses[id][1].loading /\ responses[id][1].error # <<>>

----------------------------------------------------------------------------
(* C37 *)

\* C37: while the connection store is unchanged, after any sequence of toggles every
\* selected service has connection status 'connected', and every call compare mode
\* issues is for a service that is connected.
C37_SelectedAreConnected ==
  /\ \A i \in DOMAIN selectedServices : selectedServices[i] \in connectedServices
  /\ \A req \in calls : req.serviceId \in connectedServices

\* services were toggled off and on again (the selection is no longer in the order of
\* the mount effect), the toggle of a service that is not connected has just been
\* refused, and a fan-out to the selection is in flight
C37_Witness ==
  /\ toast = << ServiceName("anthropic"), " is not connected." >>
  /\ Len(selectedServices) = Len(connectedIds)
  /\ selectedServices # connectedIds
  /\ calls # {}

====
